---- MODULE Spec2Model ----
(***************************************************************************)
(* A model of the low-level argument tokenizer of foropts: the slice       *)
(* engine SliceIter with its tri-state tokenizer, and the configuration    *)
(* strategies (HashConfig, slice, FnConfig, pair) it looks flags up in.    *)
(*                                                                         *)
(* A string is a sequence of one-character strings, so "-ab" is            *)
(* <<"-", "a", "b">>.  An Option is a sequence of length at most one:      *)
(* None is <<>> and Some(x) is <<x>>.                                      *)
(***************************************************************************)
EXTENDS Integers, Sequences, FiniteSets, TLC

\* ------------------------------------------------------------------------
\* Bounds of the model.
\* ------------------------------------------------------------------------

\* The largest input slice handed to SliceIter::new, counting one for every
\* short-flag character, long name, attached value and plain token in it.
MaxInput == 3

\* The most registration calls made on one HashConfig.
MaxRegs == 3

\* ------------------------------------------------------------------------
\* Options.
\* ------------------------------------------------------------------------

None == <<>>

Some(x) == <<x>>

\* ------------------------------------------------------------------------
\* Flag, Presence, Policy (low/flag.rs, low/policy.rs).
\* ------------------------------------------------------------------------

\* Flag::Short(c): the name of a short flag is its one character.
Short(c) == [tag |-> "Short", name |-> <<c>>]

\* Flag::Long(s)
Long(s) == [tag |-> "Long", name |-> s]

Presence == {"Always", "IfAttached", "Never"}

\* A conversion that takes `true` for "a parameter may be attached".
into_true_if_attached(p) ==
    IF p = "true" THEN "IfAttached" ELSE IF p = "false" THEN "Never" ELSE p

\* impl From<bool> for Presence, and the identity conversion of a Presence.
\* The booleans are written "true" and "false".
into(p) == IF p = "true" THEN "Always" ELSE IF p = "false" THEN "Never" ELSE p

\* Policy::new
Policy(presence, token) == [presence |-> into(presence), token |-> token]

\* ------------------------------------------------------------------------
\* Items and errors (low/slice_iter/item.rs, low/slice_iter/errors.rs).
\* ------------------------------------------------------------------------

Opt(flag, param, token) ==
    [kind |-> "Opt", flag |-> flag, param |-> param, token |-> token]

Positional(arg) == [kind |-> "Positional", text |-> arg]

UnknownFlag(flag) == [kind |-> "Error", err |-> "UnknownFlag", flag |-> flag]

MissingParam(flag) == [kind |-> "Error", err |-> "MissingParam", flag |-> flag]

UnexpectedParam(flag, param) ==
    [kind |-> "Error", err |-> "UnexpectedParam", flag |-> flag, param |-> param]

\* ------------------------------------------------------------------------
\* The tokenizer state (low/slice_iter/mod.rs).
\* ------------------------------------------------------------------------

Start == [tag |-> "Start", s |-> <<>>]

ShortOpts(s) == [tag |-> "ShortOpts", s |-> s]

PositionalOnly == [tag |-> "PositionalOnly", s |-> <<>>]

\* struct State { first, rest }
State(first, rest) == [first |-> first, rest |-> rest]

\* ------------------------------------------------------------------------
\* String helpers.
\* ------------------------------------------------------------------------

\* util::split_first_str: None for the empty string, else the first
\* character and the characters after it.
split_first_str(s) == IF s = <<>> THEN None ELSE Some(<<Head(s), Tail(s)>>)

\* A search for the last occurrence instead of the first.
find_last(s, ch) ==
    IF \E i \in 1..Len(s) : s[i] = ch
    THEN Some((CHOOSE i \in 1..Len(s) :
                  s[i] = ch /\ \A j \in (i + 1)..Len(s) : s[j] # ch) - 1)
    ELSE None

\* str::find(ch): the 0-based index of the first occurrence, if any.
find(s, ch) ==
    IF \E i \in 1..Len(s) : s[i] = ch
    THEN Some((CHOOSE i \in 1..Len(s) :
                  s[i] = ch /\ \A j \in 1..(i - 1) : s[j] # ch) - 1)
    ELSE None

\* The slice s[from ..] for a 0-based index.
slice_from(s, from) == SubSeq(s, from + 1, Len(s))

\* The slice s[.. to] for a 0-based, exclusive index.
slice_to(s, to) == SubSeq(s, 1, to)

\* ------------------------------------------------------------------------
\* The configuration strategies (low/config.rs).  A lookup returns
\* None or Some(presence).
\* ------------------------------------------------------------------------

\* A comparison of the two flag values as they are stored.
is_same_representation(flag, other) == flag = other

\* Flag::is: same kind and same text.
is(flag, other) == flag.tag = other.tag /\ flag.name = other.name

\* An insert that keeps the value already stored under the key.
insert_keeps_old(map, key, value) == map @@ (key :> value)

\* HashMap::insert: the new value replaces the one stored under the key.
insert(map, key, value) == (key :> value) @@ map

\* HashMap::get(key).cloned()
get(map, key) == IF key \in DOMAIN map THEN Some(map[key]) ELSE None

\* Option::or_else
or_else(x, y) == IF x # None THEN x ELSE y

\* HashConfig::new
new == [short_opts |-> <<>>, long_opts |-> <<>>]

\* HashConfig::short
short(self, flag, param) ==
    [self EXCEPT !.short_opts = insert(@, flag, into(param))]

\* HashConfig::long
long(self, flag, param) ==
    [self EXCEPT !.long_opts = insert(@, flag, into(param))]

\* HashConfig::both
both(self, s, l, param) ==
    LET presence == into(param) IN long(short(self, s, presence), l, presence)

\* HashConfig::opt
opt(self, flag, param) ==
    IF flag.tag = "Short" THEN short(self, flag.name[1], param)
    ELSE long(self, flag.name, param)

\* impl Config for HashConfig
HashConfig_get_short_param(self, c) == get(self.short_opts, c)

HashConfig_get_long_param(self, name) == get(self.long_opts, name)

\* Iterator::find over a slice of (Flag, P) pairs: the first pair whose
\* flag is the wanted one.
find_pair(self, wanted) ==
    LET hits == {i \in 1..Len(self) : is(self[i][1], wanted)} IN
    IF hits = {} THEN None
    ELSE Some(self[CHOOSE i \in hits : \A j \in hits : i <= j])

\* Option::map(|pair| pair.1.into())
map_into(found) == IF found = None THEN None ELSE Some(into(found[1][2]))

\* impl Config for [(Flag<L>, P)]
Slice_get_short_param(self, name) == map_into(find_pair(self, Short(name)))

Slice_get_long_param(self, name) == map_into(find_pair(self, Long(name)))

\* impl Config for FnConfig: self.fun is a function from Flag to Option<P>.
FnConfig_get_short_param(self, c) ==
    IF self[Short(c)] = None THEN None ELSE Some(into(self[Short(c)][1]))

FnConfig_get_long_param(self, name) ==
    IF self[Long(name)] = None THEN None ELSE Some(into(self[Long(name)][1]))

\* A pair that asks its second configuration first.
Pair_get_short_param_second_first(self, c) ==
    or_else(Slice_get_short_param(self[2], c),
            HashConfig_get_short_param(self[1], c))

\* impl Config for (T, U), with a HashConfig first and a slice second as in
\* tests::pair_config.
Pair_get_short_param(self, c) ==
    or_else(HashConfig_get_short_param(self[1], c),
            Slice_get_short_param(self[2], c))

Pair_get_long_param(self, name) ==
    or_else(HashConfig_get_long_param(self[1], name),
            Slice_get_long_param(self[2], name))

\* ------------------------------------------------------------------------
\* The configuration the engine looks flags up in.
\*   kind "Hash": two finite maps from key to Policy.
\*   kind "Fn":   a closure |_| Some(presence), with the unit token.
\* ------------------------------------------------------------------------

get_short_policy(cfg, c) ==
    IF cfg.kind = "Fn" THEN Some(Policy(cfg.presence, "unit"))
    ELSE IF c \in DOMAIN cfg.short_opts THEN Some(cfg.short_opts[c])
    ELSE None

get_long_policy(cfg, name) ==
    IF cfg.kind = "Fn" THEN Some(Policy(cfg.presence, "unit"))
    ELSE IF name \in DOMAIN cfg.long_opts THEN Some(cfg.long_opts[name])
    ELSE None

\* ------------------------------------------------------------------------
\* The engine.  Every operator takes the State it is called on and returns
\* its return value (ret) together with the State it leaves behind (st).
\* ------------------------------------------------------------------------

\* A next_arg that hands out the first raw token without moving past it.
next_arg_keeps_token(st) ==
    IF Len(st.rest) > 0
    THEN [ret |-> Some(Head(st.rest)), st |-> State(st.first, st.rest)]
    ELSE [ret |-> None, st |-> State(Start, st.rest)]

\* A next_arg that leaves the tokenizer state alone at the end of the input.
next_arg_keeps_first(st) ==
    IF Len(st.rest) > 0
    THEN [ret |-> Some(Head(st.rest)), st |-> State(st.first, Tail(st.rest))]
    ELSE [ret |-> None, st |-> st]

\* A next_arg that moves past two raw tokens and hands out the first.
next_arg_skips_token(st) ==
    IF Len(st.rest) > 0
    THEN [ret |-> Some(Head(st.rest)),
          st  |-> State(st.first, IF Len(st.rest) > 1 THEN Tail(Tail(st.rest))
                                  ELSE Tail(st.rest))]
    ELSE [ret |-> None, st |-> State(Start, st.rest)]

\* State::next_arg
next_arg(st) ==
    IF Len(st.rest) > 0
    THEN [ret |-> Some(Head(st.rest)), st |-> State(st.first, Tail(st.rest))]
    ELSE [ret |-> None, st |-> State(Start, st.rest)]

\* A Never flag that drops an attached value instead of rejecting it.
long_attached_drops_value(cfg, st, name, param) ==
    LET flag   == Long(name)
        policy == get_long_policy(cfg, name)
    IN  IF policy = None
        THEN [ret |-> UnknownFlag(flag), st |-> st]
        ELSE IF policy[1].presence = "Never"
        THEN [ret |-> Opt(flag, None, policy[1].token), st |-> st]
        ELSE [ret |-> Opt(flag, Some(param), policy[1].token), st |-> st]

\* A parse for which an empty attached value is no value.
long_attached_empty_is_none(cfg, st, name, param) ==
    LET flag   == Long(name)
        policy == get_long_policy(cfg, name)
    IN  IF policy = None
        THEN [ret |-> UnknownFlag(flag), st |-> st]
        ELSE IF param = <<>>
        THEN [ret |-> Opt(flag, None, policy[1].token), st |-> st]
        ELSE IF policy[1].presence = "Never"
        THEN [ret |-> UnexpectedParam(flag, param), st |-> st]
        ELSE [ret |-> Opt(flag, Some(param), policy[1].token), st |-> st]

\* State::parse_long, the token has an `=`: the name before the first `=`
\* is looked up, the text after it is the attached parameter.
long_attached(cfg, st, name, param) ==
    LET flag   == Long(name)
        policy == get_long_policy(cfg, name)
    IN  IF policy = None
        THEN [ret |-> UnknownFlag(flag), st |-> st]
        ELSE IF policy[1].presence = "Never"
        THEN [ret |-> UnexpectedParam(flag, param), st |-> st]
        ELSE [ret |-> Opt(flag, Some(param), policy[1].token), st |-> st]

\* An Always long flag that drops the raw token after its parameter.
long_bare_skips_token(cfg, st, name) ==
    LET flag   == Long(name)
        policy == get_long_policy(cfg, name)
    IN  IF policy = None
        THEN [ret |-> UnknownFlag(flag), st |-> st]
        ELSE IF policy[1].presence \in {"Never", "IfAttached"}
        THEN [ret |-> Opt(flag, None, policy[1].token), st |-> st]
        ELSE LET na == next_arg(st) IN
             IF na.ret = None
             THEN [ret |-> MissingParam(flag), st |-> na.st]
             ELSE [ret |-> Opt(flag, Some(na.ret[1]), policy[1].token),
                   st  |-> next_arg(na.st).st]

\* An IfAttached long flag that takes the next raw token when nothing is
\* attached.
long_bare_if_attached_takes_next(cfg, st, name) ==
    LET flag   == Long(name)
        policy == get_long_policy(cfg, name)
    IN  IF policy = None
        THEN [ret |-> UnknownFlag(flag), st |-> st]
        ELSE IF policy[1].presence = "Never"
        THEN [ret |-> Opt(flag, None, policy[1].token), st |-> st]
        ELSE LET na == next_arg(st) IN
             IF na.ret = None
             THEN [ret |-> MissingParam(flag), st |-> na.st]
             ELSE [ret |-> Opt(flag, Some(na.ret[1]), policy[1].token),
                   st  |-> na.st]

\* An Always long flag that refuses a following token that starts with a
\* hyphen.
long_bare_rejects_hyphen(cfg, st, name) ==
    LET flag   == Long(name)
        policy == get_long_policy(cfg, name)
    IN  IF policy = None
        THEN [ret |-> UnknownFlag(flag), st |-> st]
        ELSE IF policy[1].presence \in {"Never", "IfAttached"}
        THEN [ret |-> Opt(flag, None, policy[1].token), st |-> st]
        ELSE LET na == next_arg(st) IN
             IF na.ret = None \/ (na.ret[1] # <<>> /\ na.ret[1][1] = "-")
             THEN [ret |-> MissingParam(flag), st |-> st]
             ELSE [ret |-> Opt(flag, Some(na.ret[1]), policy[1].token),
                   st  |-> na.st]

\* State::parse_long, the token has no `=`.
long_bare(cfg, st, name) ==
    LET flag   == Long(name)
        policy == get_long_policy(cfg, name)
    IN  IF policy = None
        THEN [ret |-> UnknownFlag(flag), st |-> st]
        ELSE IF policy[1].presence \in {"Never", "IfAttached"}
        THEN [ret |-> Opt(flag, None, policy[1].token), st |-> st]
        ELSE LET na == next_arg(st) IN
             IF na.ret = None
             THEN [ret |-> MissingParam(flag), st |-> na.st]
             ELSE [ret |-> Opt(flag, Some(na.ret[1]), policy[1].token),
                   st  |-> na.st]

\* A parse that hands a token with an unregistered name out as a
\* positional.
parse_long_unknown_is_positional(cfg, st, after_hyphens) ==
    LET found == find(after_hyphens, "=")
        name  == IF found # None THEN slice_to(after_hyphens, found[1])
                 ELSE after_hyphens
    IN  IF get_long_policy(cfg, name) = None
        THEN [ret |-> Positional(<<"-", "-">> \o after_hyphens), st |-> st]
        ELSE IF found # None
        THEN long_attached(cfg, st, name, slice_from(after_hyphens, found[1] + 1))
        ELSE long_bare(cfg, st, after_hyphens)

\* State::parse_long
parse_long(cfg, st, after_hyphens) ==
    LET found == find(after_hyphens, "=") IN
    IF found # None
    THEN LET index == found[1] IN
         long_attached(cfg, st, slice_to(after_hyphens, index),
                       slice_from(after_hyphens, index + 1))
    ELSE long_bare(cfg, st, after_hyphens)

\* An unknown flag that ends the iteration: nothing is left to read.
short_unknown_drops_input(st, flag, rest) ==
    [ret |-> UnknownFlag(flag), st |-> State(Start, <<>>)]

\* An unknown flag that abandons the rest of its cluster.
short_unknown_ends_cluster(st, flag, rest) ==
    [ret |-> UnknownFlag(flag), st |-> State(Start, st.rest)]

\* An unknown hyphen inside a cluster that is taken for the end-of-options
\* marker.
short_unknown_hyphen_is_marker(st, flag, rest) ==
    [ret |-> UnknownFlag(flag),
     st  |-> State(IF flag = Short("-") THEN PositionalOnly
                   ELSE ShortOpts(rest), st.rest)]

\* State::parse_short, the flag is not registered: the cluster goes on.
short_unknown(st, flag, rest) ==
    [ret |-> UnknownFlag(flag), st |-> State(ShortOpts(rest), st.rest)]

\* An Always flag that takes the next raw token even when characters follow
\* it in its own token.
short_always_ignores_rest(st, flag, rest, policy) ==
    LET na == next_arg(st) IN
    IF na.ret = None
    THEN [ret |-> MissingParam(flag), st |-> na.st]
    ELSE [ret |-> Opt(flag, Some(na.ret[1]), policy.token),
          st  |-> State(Start, na.st.rest)]

\* An Always flag that refuses a separate parameter that starts with a
\* hyphen.
short_always_rejects_hyphen(st, flag, rest, policy) ==
    IF rest = <<>>
    THEN LET na == next_arg(st) IN
         IF na.ret = None \/ (na.ret[1] # <<>> /\ na.ret[1][1] = "-")
         THEN [ret |-> MissingParam(flag), st |-> State(Start, st.rest)]
         ELSE [ret |-> Opt(flag, Some(na.ret[1]), policy.token),
               st  |-> State(Start, na.st.rest)]
    ELSE [ret |-> Opt(flag, Some(rest), policy.token),
          st  |-> State(Start, st.rest)]

\* State::parse_short, presence Always: the rest of the token if there is
\* one, else the next raw token, is the parameter.
short_always(st, flag, rest, policy) ==
    IF rest = <<>>
    THEN LET na == next_arg(st) IN
         IF na.ret = None
         THEN [ret |-> MissingParam(flag), st |-> na.st]
         ELSE [ret |-> Opt(flag, Some(na.ret[1]), policy.token),
               st  |-> State(Start, na.st.rest)]
    ELSE [ret |-> Opt(flag, Some(rest), policy.token),
          st  |-> State(Start, st.rest)]

\* An IfAttached short flag that is emitted with the unit token instead of
\* its policy's.
short_if_attached_unit_token(st, flag, rest, policy) ==
    IF rest = <<>>
    THEN [ret |-> Opt(flag, None, "unit"), st |-> State(Start, st.rest)]
    ELSE [ret |-> Opt(flag, Some(rest), "unit"),
          st  |-> State(Start, st.rest)]

\* An IfAttached short flag that takes the next raw token when it ends its
\* token.
short_if_attached_takes_next(st, flag, rest, policy) ==
    IF rest = <<>>
    THEN LET na == next_arg(st) IN
         IF na.ret = None
         THEN [ret |-> Opt(flag, None, policy.token), st |-> State(Start, st.rest)]
         ELSE [ret |-> Opt(flag, Some(na.ret[1]), policy.token),
               st  |-> State(Start, na.st.rest)]
    ELSE [ret |-> Opt(flag, Some(rest), policy.token),
          st  |-> State(Start, st.rest)]

\* State::parse_short, presence IfAttached.
short_if_attached(st, flag, rest, policy) ==
    IF rest = <<>>
    THEN [ret |-> Opt(flag, None, policy.token), st |-> State(Start, st.rest)]
    ELSE [ret |-> Opt(flag, Some(rest), policy.token),
          st  |-> State(Start, st.rest)]

\* A Never flag that takes the characters after it for an attached
\* parameter and rejects it.
short_never_rejects_attached(st, flag, rest, policy) ==
    IF rest = <<>>
    THEN [ret |-> Opt(flag, None, policy.token),
          st  |-> State(ShortOpts(rest), st.rest)]
    ELSE [ret |-> UnexpectedParam(flag, rest), st |-> State(Start, st.rest)]

\* A Never flag that ends the cluster instead of continuing it.
short_never_ends_cluster(st, flag, rest, policy) ==
    [ret |-> Opt(flag, None, policy.token), st |-> State(Start, st.rest)]

\* State::parse_short, presence Never: the cluster goes on.
short_never(st, flag, rest, policy) ==
    [ret |-> Opt(flag, None, policy.token),
     st  |-> State(ShortOpts(rest), st.rest)]

\* State::parse_short
parse_short(cfg, st, c, rest) ==
    LET flag   == Short(c)
        policy == get_short_policy(cfg, c)
    IN  IF policy = None
        THEN short_unknown(st, flag, rest)
        ELSE CASE policy[1].presence = "Always" ->
                    short_always(st, flag, rest, policy[1])
               [] policy[1].presence = "IfAttached" ->
                    short_if_attached(st, flag, rest, policy[1])
               [] policy[1].presence = "Never" ->
                    short_never(st, flag, rest, policy[1])

\* A missing end-of-options arm: `--` falls into the long-flag arm.
match_arg_without_marker(arg) ==
    LET sf == split_first_str(arg) IN
    IF sf # None /\ sf[1][1] = "-"
    THEN LET rest == sf[1][2]
             sf2  == split_first_str(rest)
         IN  IF sf2 = None THEN [arm |-> "Positional", text |-> arg]
             ELSE IF sf2[1][1] = "-" THEN [arm |-> "Long", text |-> sf2[1][2]]
             ELSE [arm |-> "ShortOpts", text |-> rest]
    ELSE [arm |-> "Positional", text |-> arg]

\* A match that takes the lone hyphen for a cluster of no characters.
match_arg_lone_hyphen_cluster(arg) ==
    LET sf == split_first_str(arg) IN
    IF sf # None /\ sf[1][1] = "-"
    THEN LET rest == sf[1][2]
             sf2  == split_first_str(rest)
         IN  IF sf2 = None THEN [arm |-> "ShortOpts", text |-> rest]
             ELSE IF sf2[1][1] = "-" /\ sf2[1][2] = <<>>
             THEN [arm |-> "PositionalOnly", text |-> <<>>]
             ELSE IF sf2[1][1] = "-" THEN [arm |-> "Long", text |-> sf2[1][2]]
             ELSE [arm |-> "ShortOpts", text |-> rest]
    ELSE [arm |-> "Positional", text |-> arg]

\* State::next_with_config, the match on a raw token read in Start state:
\* the arm taken and the text it works on.
match_arg(arg) ==
    LET sf == split_first_str(arg) IN
    IF sf # None /\ sf[1][1] = "-"
    THEN LET rest == sf[1][2]
             sf2  == split_first_str(rest)
         IN  IF sf2 = None THEN [arm |-> "Positional", text |-> arg]
             ELSE IF sf2[1][1] = "-" /\ sf2[1][2] = <<>>
             THEN [arm |-> "PositionalOnly", text |-> <<>>]
             ELSE IF sf2[1][1] = "-" THEN [arm |-> "Long", text |-> sf2[1][2]]
             ELSE [arm |-> "ShortOpts", text |-> rest]
    ELSE [arm |-> "Positional", text |-> arg]

\* State::next_with_config: one pull.  The loop of the code is the
\* recursion; ret is None or Some(item).
RECURSIVE next_with_config(_, _)
next_with_config(cfg, st) ==
    CASE st.first.tag = "Start" ->
            LET na == next_arg(st) IN
            IF na.ret = None THEN [ret |-> None, st |-> na.st]
            ELSE LET arg == na.ret[1]
                     m   == match_arg(arg)
                     pl  == parse_long(cfg, na.st, m.text)
                 IN  IF m.arm = "Positional"
                     THEN [ret |-> Some(Positional(arg)), st |-> na.st]
                     ELSE IF m.arm = "PositionalOnly"
                     THEN next_with_config(cfg, State(PositionalOnly, na.st.rest))
                     ELSE IF m.arm = "Long"
                     THEN [ret |-> Some(pl.ret), st |-> pl.st]
                     ELSE next_with_config(cfg,
                              State(ShortOpts(m.text), na.st.rest))
      [] st.first.tag = "ShortOpts" ->
            LET sf == split_first_str(st.first.s) IN
            IF sf = None
            THEN next_with_config(cfg, State(Start, st.rest))
            ELSE LET ps == parse_short(cfg, st, sf[1][1], sf[1][2])
                 IN  [ret |-> Some(ps.ret), st |-> ps.st]
      [] st.first.tag = "PositionalOnly" ->
            LET na == next_arg(st) IN
            IF na.ret = None THEN [ret |-> None, st |-> na.st]
            ELSE [ret |-> Some(Positional(na.ret[1])), st |-> na.st]

\* ------------------------------------------------------------------------
\* Configurations and inputs of the engine.
\* ------------------------------------------------------------------------

\* The hash configuration of the configuration tests: 'a'/"all" never take
\* a parameter, 'm'/"message" always do, 'r'/"rebase" take one if attached,
\* and 'b'/"bare" are not registered.  A long name is abbreviated to its
\* first letter; every entry carries its own token.
hash_config ==
    [kind       |-> "Hash",
     short_opts |-> ("a" :> Policy("false", "short_a")
                  @@ "m" :> Policy("true", "short_m")
                  @@ "r" :> Policy("IfAttached", "short_r")),
     long_opts  |-> (<<"a">> :> Policy("false", "long_a")
                  @@ <<"m">> :> Policy("true", "long_m")
                  @@ <<"r">> :> Policy("IfAttached", "long_r"))]

\* FnConfig::new(|_| Some(presence)) of the Presence examples.
fn_config(presence) == [kind |-> "Fn", presence |-> presence]

\* HashConfig::new() with no registration: no flag is known.
empty_config == [kind |-> "Hash", short_opts |-> <<>>, long_opts |-> <<>>]

Configs == {hash_config, empty_config} \cup {fn_config(p) : p \in Presence}

\* The characters a short cluster is made of.
Chars == {"a", "m", "r", "b", "-"}

\* The long names written on the command line.
LongNames == {<<"a">>, <<"m">>, <<"r">>, <<"b">>}

\* The values attached to a long flag with `=`.
Values == {<<>>, <<"b", "=">>}

\* -c1..cn for a given n >= 1, c1 not a hyphen.
ShortTokens(n) ==
    {<<"-">> \o cl : cl \in {c \in [1..n -> Chars] : c[1] # "-"}}

\* --name
BareLongTokens == {<<"-", "-">> \o n : n \in LongNames}

\* --name=value, also with the empty name.
AttachedLongTokens ==
    {<<"-", "-">> \o n \o <<"=">> \o v : n \in LongNames \cup {<<>>}, v \in Values}

\* The empty string, a word, the lone hyphen and the end-of-options marker.
PlainTokens == {<<>>, <<"b">>, <<"-">>, <<"-", "-">>}

\* The tokens of a size: a cluster counts its characters, --name=value
\* counts two, any other token one.
TokensOfSize(n) ==
    ShortTokens(n)
    \cup (IF n = 1 THEN BareLongTokens \cup PlainTokens ELSE {})
    \cup (IF n = 2 THEN AttachedLongTokens ELSE {})

\* The closure of tests::fn_config for a list of registrations: a match
\* with one arm per entry, in order, and `_ => None` at the end.
fn_get(entries, flag) ==
    IF find_pair(entries, flag) = None THEN None
    ELSE Some(find_pair(entries, flag)[1][2])

\* The keys and presences the registration calls are made with; short 'a'
\* and long "a" have the same text.
ShortKeys == {"a", "v"}

LongKeys == {<<"a">>, <<"v">>}

PresenceArgs == Presence \cup {"true", "false"}

\* The keys looked up: the registered ones and one that never is.
LookupShorts == ShortKeys \cup {"z"}

LookupLongs == LongKeys \cup {<<"z">>}

LookupFlags == {Short(c) : c \in LookupShorts} \cup {Long(n) : n \in LookupLongs}

\* The slice configurations put second in a pair, after tests::pair_config.
CommonConfigs ==
    { <<>>,
      << <<Short("v"), "Never">>, <<Long(<<"v">>), "Never">> >>,
      << <<Short("a"), "true">>, <<Long(<<"a">>), "IfAttached">> >> }

\* ------------------------------------------------------------------------
\* State.
\* ------------------------------------------------------------------------

VARIABLES
    config,     \* SliceIter.config
    first,      \* SliceIter.state.first
    rest,       \* SliceIter.state.rest: the unread raw tokens
    args,       \* the slice SliceIter::new was given
    out,        \* the items collected from the iterator so far
    ret,        \* the return value of the latest call of next(), if any
    hash,       \* the HashConfig under construction
    list,       \* the (flag, presence) registrations made so far, in order
    common,     \* the slice configuration paired with the HashConfig
    lookup,     \* the latest lookup made on the configurations, if any
    cmp,        \* the latest call of Flag::is: self, other and the result
    iter,       \* the high-level Iter: its unread arguments and push_back
    results,    \* the results collected from the high-level Iter
    builder,    \* the high-level Config under construction
    calls,      \* the calls of Config::arg_safe made so far, with their results
    arg_item,   \* an ArgItem and what has_param and get_param returned for it
    supplied    \* the configuration handed to the last pull, None for the stored one

vars ==
    <<config, first, rest, args, out, ret, hash, list, common,
      lookup, cmp, iter, results, builder, calls, arg_item, supplied>>

iter_vars == <<config, first, rest, args, out, ret>>

config_vars == <<hash, list, common>>

aux_vars == <<lookup, cmp, iter, results, builder, calls, arg_item, supplied>>

\* The variables of the engine and of the HashConfig together.
low_vars == <<config, first, rest, args, out, ret, hash, list, common>>

\* Nothing has been looked up, compared, parsed or built.
AuxInit ==
    /\ lookup = None
    /\ cmp = None
    /\ iter = None
    /\ results = None
    /\ builder = None
    /\ calls = None
    /\ arg_item = None
    /\ supplied = None

\* ------------------------------------------------------------------------
\* The engine: SliceIter::new, then the pulls of collect().
\* ------------------------------------------------------------------------

\* SliceIter::new(config, args), for every configuration and input.
\* The input slices: args is prefix followed by any token sequence of size at
\* most n.
RECURSIVE Inputs(_, _)
Inputs(prefix, n) ==
    \/ args = prefix
    \/ \E k \in 1..n : \E t \in TokensOfSize(k) : Inputs(Append(prefix, t), n - k)

Init ==
    /\ config \in Configs
    /\ Inputs(<<>>, MaxInput)
    /\ first = Start
    /\ rest = args
    /\ out = <<>>
    /\ ret = None
    /\ hash = new
    /\ list = <<>>
    /\ common = <<>>
    /\ AuxInit

\* Iterator::next for SliceIter, as driven by collect(): one pull under the
\* stored configuration; an item is appended to the collected result.
next ==
    LET r == next_with_config(config, State(first, rest)) IN
    /\ first' = r.st.first
    /\ rest' = r.st.rest
    /\ ret' = Some(r.ret)
    /\ out' = IF r.ret = None THEN out ELSE Append(out, r.ret[1])
    /\ supplied' = None
    /\ UNCHANGED <<config, args>>
    /\ UNCHANGED config_vars
    /\ UNCHANGED <<lookup, cmp, iter, results, builder, calls, arg_item>>

Next == next

Spec == Init /\ [][Next]_vars

\* ------------------------------------------------------------------------
\* The engine with the configuration swapped between pulls.
\* ------------------------------------------------------------------------

\* The configurations swapped between: one with a policy of its own for
\* each flag, and one that gives every flag a parameter.
SwapConfigs == {hash_config, fn_config("Always")}

\* SliceIter::new(config, args) with one of the swapped configurations.
SwapInit == Init /\ config \in SwapConfigs

\* A swap that puts the tokenizer back at the start of a token.
config_mut_restarts ==
    \E c \in SwapConfigs :
        /\ config' = c
        /\ first' = Start
        /\ UNCHANGED <<rest, args, out, ret>>
        /\ UNCHANGED config_vars
        /\ UNCHANGED aux_vars

\* *iter.config_mut() = c
config_mut ==
    \E c \in SwapConfigs :
        /\ config' = c
        /\ UNCHANGED <<first, rest, args, out, ret>>
        /\ UNCHANGED config_vars
        /\ UNCHANGED aux_vars

\* iter = iter.with_config(c): a new SliceIter around the old state.
with_config ==
    \E c \in SwapConfigs :
        /\ config' = c
        /\ first' = State(first, rest).first
        /\ rest' = State(first, rest).rest
        /\ UNCHANGED <<args, out, ret>>
        /\ UNCHANGED config_vars
        /\ UNCHANGED aux_vars

SwapNext == next \/ config_mut \/ with_config

SpecSwap == SwapInit /\ [][SwapNext]_vars

\* ------------------------------------------------------------------------
\* Building a configuration: HashConfig::new(), then registration calls.
\* ------------------------------------------------------------------------

ConfigInit ==
    /\ hash = new
    /\ list = <<>>
    /\ common \in CommonConfigs
    /\ config = hash_config
    /\ args = <<>>
    /\ first = Start
    /\ rest = <<>>
    /\ out = <<>>
    /\ ret = None
    /\ AuxInit

\* config.short(c, p)
RegisterShort ==
    \E c \in ShortKeys, p \in PresenceArgs :
        /\ Len(list) + 1 <= MaxRegs
        /\ hash' = short(hash, c, p)
        /\ list' = Append(list, <<Short(c), p>>)
        /\ UNCHANGED common
        /\ UNCHANGED iter_vars
        /\ UNCHANGED aux_vars

\* config.long(name, p)
RegisterLong ==
    \E n \in LongKeys, p \in PresenceArgs :
        /\ Len(list) + 1 <= MaxRegs
        /\ hash' = long(hash, n, p)
        /\ list' = Append(list, <<Long(n), p>>)
        /\ UNCHANGED common
        /\ UNCHANGED iter_vars
        /\ UNCHANGED aux_vars

\* config.both(c, name, p)
RegisterBoth ==
    \E c \in ShortKeys, n \in LongKeys, p \in PresenceArgs :
        /\ Len(list) + 2 <= MaxRegs
        /\ hash' = both(hash, c, n, p)
        /\ list' = list \o << <<Short(c), p>>, <<Long(n), p>> >>
        /\ UNCHANGED common
        /\ UNCHANGED iter_vars
        /\ UNCHANGED aux_vars

\* config.opt(flag, p)
RegisterOpt ==
    \E f \in {Short(c) : c \in ShortKeys} \cup {Long(n) : n \in LongKeys},
       p \in PresenceArgs :
        /\ Len(list) + 1 <= MaxRegs
        /\ hash' = opt(hash, f, p)
        /\ list' = Append(list, <<f, p>>)
        /\ UNCHANGED common
        /\ UNCHANGED iter_vars
        /\ UNCHANGED aux_vars

ConfigNext == RegisterShort \/ RegisterLong \/ RegisterBoth \/ RegisterOpt

SpecConfig == ConfigInit /\ [][ConfigNext]_vars

\* ------------------------------------------------------------------------
\* Vocabulary of the properties.
\* ------------------------------------------------------------------------

\* The number of raw tokens read so far.
consumed == Len(args) - Len(rest)

\* The next pull reads a raw token in Start state: the state is Start, or
\* it is ShortOpts with nothing left, which the loop turns into Start.
ReadsInStart(f) == f.tag = "Start" \/ (f.tag = "ShortOpts" /\ f.s = <<>>)

\* -c..., a hyphen followed by a character that is not a hyphen.
IsCluster(t) == Len(t) >= 2 /\ t[1] = "-" /\ t[2] # "-"

\* The presence the configuration gives a short character, or "None".
ShortPresence(cfg, c) ==
    IF get_short_policy(cfg, c) = None THEN "None"
    ELSE get_short_policy(cfg, c)[1].presence

\* The presence the configuration gives a long name, or "None".
LongPresence(cfg, name) ==
    IF get_long_policy(cfg, name) = None THEN "None"
    ELSE get_long_policy(cfg, name)[1].presence

\* The token of a registered short character.
ShortToken(cfg, c) == get_short_policy(cfg, c)[1].token

\* The token of a registered long name.
LongToken(cfg, name) == get_long_policy(cfg, name)[1].token

\* The items of the next n pulls from the state st under cfg, with the
\* state they leave; a pull that returns None adds no item.
RECURSIVE pulls(_, _, _)
pulls(cfg, st, n) ==
    IF n = 0 THEN [items |-> <<>>, st |-> st]
    ELSE LET r    == next_with_config(cfg, st)
             more == pulls(cfg, r.st, n - 1)
         IN  [items |-> (IF r.ret = None THEN <<>> ELSE <<r.ret[1]>>) \o more.items,
              st    |-> more.st]

\* The last n items collected.
LastItems(n) == SubSeq(out, Len(out) - n + 1, Len(out))

\* Every character of the cluster is registered with presence Never.
AllNever(cfg, cl) == \A i \in 1..Len(cl) : ShortPresence(cfg, cl[i]) = "Never"

\* ------------------------------------------------------------------------
\* C1  Cluster conservation: when the next pull reads, in Start state, a
\* token -c1..cn whose characters all have presence Never, the next n pulls
\* return exactly Opt(Short(c1), None) .. Opt(Short(cn), None) in that
\* order, the unread input after each of them is the input after that one
\* token, and the pull after them reads the next raw token, or returns None
\* when there is none.
\* ------------------------------------------------------------------------
C1_ClusterConservation ==
    (/\ ReadsInStart(first)
     /\ rest # <<>>
     /\ IsCluster(Head(rest))
     /\ AllNever(config, Tail(Head(rest))))
    => LET cl    == Tail(Head(rest))
           n     == Len(cl)
           run   == pulls(config, State(first, rest), n)
           after == next_with_config(config, run.st)
       IN  /\ run.items = [i \in 1..n |->
                              Opt(Short(cl[i]), None, ShortToken(config, cl[i]))]
           /\ \A k \in 1..n :
                 pulls(config, State(first, rest), k).st.rest = Tail(rest)
           /\ IF Tail(rest) = <<>>
              THEN after.ret = None
              ELSE Len(after.st.rest) < Len(Tail(rest))

\* A cluster of two Never flags has been emitted as two items and another
\* raw token is still unread.
C1_Witness ==
    /\ first = ShortOpts(<<>>)
    /\ consumed >= 1
    /\ rest # <<>>
    /\ IsCluster(args[consumed])
    /\ Len(args[consumed]) = 3
    /\ AllNever(config, Tail(args[consumed]))
    /\ Len(out) >= 2
    /\ LastItems(2) = [i \in 1..2 |->
                          Opt(Short(args[consumed][i + 1]), None,
                              ShortToken(config, args[consumed][i + 1]))]

\* The short characters the next pull starts to classify: what is left of
\* the cluster being scanned, or the cluster of the token the pull reads in
\* Start state; empty when the pull does not classify a short flag.
Pending ==
    IF first.tag = "ShortOpts" /\ first.s # <<>> THEN first.s
    ELSE IF ReadsInStart(first) /\ rest # <<>> /\ IsCluster(Head(rest))
    THEN Tail(Head(rest))
    ELSE <<>>

\* The raw tokens that follow the token Pending belongs to.
InputAfter ==
    IF first.tag = "ShortOpts" /\ first.s # <<>> THEN rest ELSE Tail(rest)

\* The pull returns the item and collect() appends it.
Emits(item) == ret' = Some(Some(item)) /\ out' = Append(out, item)

\* ------------------------------------------------------------------------
\* C2  Attach precedence: when the pull classifies a short flag c with
\* presence Always and at least one character follows c in its token, the
\* pull returns Opt(Short(c), Some(remainder)) with the whole remainder,
\* whatever its characters are registered as, reads no raw token beyond the
\* one holding c, and leaves the state Start, so nothing more comes from
\* that token.
\* ------------------------------------------------------------------------
C2_AttachPrecedence ==
    [][ (/\ Len(Pending) >= 2
         /\ ShortPresence(config, Head(Pending)) = "Always")
        => /\ Emits(Opt(Short(Head(Pending)), Some(Tail(Pending)),
                        ShortToken(config, Head(Pending))))
           /\ first' = Start
           /\ rest' = InputAfter ]_vars

\* -ma was read under the hash configuration, where 'a' is itself a
\* registered flag: one item, with "a" as the parameter of 'm'.
C2_Witness ==
    /\ first = Start
    /\ consumed >= 1
    /\ IsCluster(args[consumed])
    /\ Len(args[consumed]) = 3
    /\ ShortPresence(config, args[consumed][2]) = "Always"
    /\ ShortPresence(config, args[consumed][3]) = "Never"
    /\ out # <<>>
    /\ LastItems(1) = << Opt(Short(args[consumed][2]), Some(<<args[consumed][3]>>),
                             ShortToken(config, args[consumed][2])) >>

\* The state of an engine in which the parameter x is attached to the
\* token of the pending short flag instead of following it.
AttachedState(x) ==
    IF first.tag = "ShortOpts" /\ first.s # <<>>
    THEN State(ShortOpts(first.s \o x), Tail(rest))
    ELSE State(first, <<Head(rest) \o x>> \o Tail(Tail(rest)))

\* ------------------------------------------------------------------------
\* C3  Separate-token fallback: when the pull classifies a short flag c
\* with presence Always that is the last character of its token and a raw
\* token X follows, the pull returns Opt(Short(c), Some(X)) with X verbatim,
\* the unread input is what followed X (the flag's token and X are the two
\* tokens consumed), and the state is Start; for a non-empty X an engine
\* given the attached spelling returns the same item and ends in the same
\* state.
\* ------------------------------------------------------------------------
C3_SeparateTokenFallback ==
    [][ (/\ Len(Pending) = 1
         /\ ShortPresence(config, Head(Pending)) = "Always"
         /\ InputAfter # <<>>)
        => LET x    == Head(InputAfter)
               item == Opt(Short(Head(Pending)), Some(x),
                           ShortToken(config, Head(Pending)))
           IN  /\ Emits(item)
               /\ first' = Start
               /\ rest' = Tail(InputAfter)
               /\ x # <<>> =>
                    LET attached == next_with_config(config, AttachedState(x))
                    IN  /\ attached.ret = Some(item)
                        /\ attached.st = State(first', rest') ]_vars

\* -m followed by a token that starts with a hyphen: the token is the
\* parameter.
C3_Witness ==
    /\ first = Start
    /\ consumed >= 2
    /\ args[consumed - 1] = <<"-", "m">>
    /\ ShortPresence(config, "m") = "Always"
    /\ Len(args[consumed]) >= 2
    /\ args[consumed][1] = "-"
    /\ out = << Opt(Short("m"), Some(args[consumed]), ShortToken(config, "m")) >>

\* ------------------------------------------------------------------------
\* C4  End-of-options: when the next pull reads the token `--` in Start
\* state, the items of all the following pulls are exactly the raw tokens
\* after it, each as Positional with its text verbatim and in input order;
\* the `--` gives no item of its own, and once the input is used up every
\* pull returns None, so no Opt and no Error comes after the marker.
\* ------------------------------------------------------------------------
C4_EndOfOptions ==
    (/\ ReadsInStart(first)
     /\ rest # <<>>
     /\ Head(rest) = <<"-", "-">>)
    => LET later == Tail(rest)
           m     == Len(later)
           end   == pulls(config, State(first, rest), m + 1).st
       IN  /\ \A k \in 0..(m + 2) :
                 pulls(config, State(first, rest), k).items =
                     [i \in 1..(IF k < m THEN k ELSE m) |-> Positional(later[i])]
           /\ \A k \in 1..m :
                 pulls(config, State(first, rest), k).st =
                     State(PositionalOnly, SubSeq(later, k + 1, m))
           /\ end.rest = <<>>
           /\ next_with_config(config, end) = [ret |-> None, st |-> end]

\* `--` was read in Start state and the token after it, which starts with
\* a hyphen, was emitted as a positional.
C4_Witness ==
    /\ first = PositionalOnly
    /\ consumed >= 2
    /\ args[consumed - 1] = <<"-", "-">>
    /\ Len(args[consumed]) >= 2
    /\ args[consumed][1] = "-"
    /\ out = << Positional(args[consumed]) >>

\* No character of the cluster is registered.
AllUnknown(cfg, cl) == \A i \in 1..Len(cl) : ShortPresence(cfg, cl[i]) = "None"

\* ------------------------------------------------------------------------
\* C5  Unknown-in-cluster continues scanning: when the pull classifies a
\* short character c that is not registered, it returns
\* Error(UnknownFlag(Short(c))), reads no raw token and leaves ShortOpts
\* with the characters after c; if a character d follows, the next pull is
\* about d and goes by d's own policy: UnknownFlag(Short(d)) when d is not
\* registered, else Opt(Short(d), ..), or MissingParam(Short(d)) only when d
\* is Always with nothing left in the token or the input.  A token of n
\* unregistered characters read in Start state gives n UnknownFlag errors
\* in the order of the characters.
\* ------------------------------------------------------------------------
C5_UnknownInClusterContinues ==
    /\ (Pending # <<>> /\ ShortPresence(config, Head(Pending)) = "None")
       => LET c  == Head(Pending)
              tl == Tail(Pending)
              r1 == next_with_config(config, State(first, rest))
              r2 == next_with_config(config, r1.st)
          IN  /\ r1.ret = Some(UnknownFlag(Short(c)))
              /\ r1.st = State(ShortOpts(tl), InputAfter)
              /\ tl # <<>> =>
                    LET d == Head(tl)
                        p == ShortPresence(config, d)
                    IN  /\ r2.ret # None
                        /\ r2.ret[1].flag = Short(d)
                        /\ p = "None" => r2.ret[1] = UnknownFlag(Short(d))
                        /\ p = "Never" =>
                              r2.ret[1] = Opt(Short(d), None, ShortToken(config, d))
                        /\ p \in {"Always", "IfAttached"} /\ Tail(tl) # <<>> =>
                              r2.ret[1] = Opt(Short(d), Some(Tail(tl)),
                                              ShortToken(config, d))
                        /\ p = "IfAttached" /\ Tail(tl) = <<>> =>
                              r2.ret[1] = Opt(Short(d), None, ShortToken(config, d))
                        /\ p = "Always" /\ Tail(tl) = <<>> /\ InputAfter # <<>> =>
                              r2.ret[1] = Opt(Short(d), Some(Head(InputAfter)),
                                              ShortToken(config, d))
                        /\ p = "Always" /\ Tail(tl) = <<>> /\ InputAfter = <<>> =>
                              r2.ret[1] = MissingParam(Short(d))
    /\ (/\ ReadsInStart(first)
        /\ rest # <<>>
        /\ IsCluster(Head(rest))
        /\ AllUnknown(config, Tail(Head(rest))))
       => LET cl  == Tail(Head(rest))
              run == pulls(config, State(first, rest), Len(cl))
          IN  /\ run.items = [i \in 1..Len(cl) |-> UnknownFlag(Short(cl[i]))]
              /\ run.st = State(ShortOpts(<<>>), Tail(rest))

\* -bm was read under the hash configuration: UnknownFlag for 'b', then
\* 'm' classified by its own policy, here MissingParam at the end of the
\* input.
C5_Witness ==
    /\ consumed >= 1
    /\ args[consumed] = <<"-", "b", "m">>
    /\ rest = <<>>
    /\ ShortPresence(config, "b") = "None"
    /\ ShortPresence(config, "m") = "Always"
    /\ Len(out) >= 2
    /\ LastItems(2) = << UnknownFlag(Short("b")), MissingParam(Short("m")) >>

\* A token of two unregistered characters has given two UnknownFlag
\* errors.
C5_WitnessAllUnknown ==
    /\ first = ShortOpts(<<>>)
    /\ consumed >= 1
    /\ IsCluster(args[consumed])
    /\ Len(args[consumed]) = 3
    /\ AllUnknown(config, Tail(args[consumed]))
    /\ Len(out) >= 2
    /\ LastItems(2) = << UnknownFlag(Short(args[consumed][2])),
                         UnknownFlag(Short(args[consumed][3])) >>

\* The token is --name=value for this name and value.
IsLongAttached(t, name, value) == t = <<"-", "-">> \o name \o <<"=">> \o value

\* The token is --name for this non-empty name.
IsLongBare(t, name) == name # <<>> /\ t = <<"-", "-">> \o name

\* ------------------------------------------------------------------------
\* C6  Long attached-on-Never is an error: when the pull reads in Start
\* state a token --name=value whose name is registered with presence Never,
\* it returns Error(UnexpectedParam(Long(name), value)) with the value text,
\* which is the only thing collected for that token (no Opt), reads no
\* further raw token and leaves the state Start.
\* ------------------------------------------------------------------------
C6_LongAttachedOnNever ==
    [][ \A name \in LongNames \cup {<<>>}, value \in Values :
          (/\ ReadsInStart(first)
           /\ rest # <<>>
           /\ IsLongAttached(Head(rest), name, value)
           /\ LongPresence(config, name) = "Never")
          => /\ Emits(UnexpectedParam(Long(name), value))
             /\ first' = Start
             /\ rest' = Tail(rest) ]_vars

\* --a=b= was read with "a" registered Never: the error carries "b=", and
\* the token that follows is still unread.
C6_Witness ==
    /\ first = Start
    /\ consumed = 1
    /\ rest # <<>>
    /\ IsLongAttached(args[1], <<"a">>, <<"b", "=">>)
    /\ LongPresence(config, <<"a">>) = "Never"
    /\ out = << UnexpectedParam(Long(<<"a">>), <<"b", "=">>) >>

\* The item is Error(MissingParam(_)).
IsMissingParam(item) == item.kind = "Error" /\ item.err = "MissingParam"

\* ------------------------------------------------------------------------
\* C7  Missing terminal parameter: when the pull classifies a short flag
\* with presence Always that is the last character of its token, or reads
\* in Start state a token --name whose name has presence Always, and no raw
\* token follows, it returns Error(MissingParam(flag)) once, the state is
\* Start with nothing unread, and the pull after it returns None; and
\* whenever a pull returns MissingParam no raw token is left unread.
\* ------------------------------------------------------------------------
C7_MissingTerminalParam ==
    [][ /\ (/\ Len(Pending) = 1
            /\ ShortPresence(config, Head(Pending)) = "Always"
            /\ InputAfter = <<>>)
           => /\ Emits(MissingParam(Short(Head(Pending))))
              /\ first' = Start
              /\ rest' = <<>>
              /\ next_with_config(config, State(first', rest')).ret = None
        /\ \A name \in LongNames :
             (/\ ReadsInStart(first)
              /\ rest # <<>>
              /\ IsLongBare(Head(rest), name)
              /\ LongPresence(config, name) = "Always"
              /\ Tail(rest) = <<>>)
             => /\ Emits(MissingParam(Long(name)))
                /\ first' = Start
                /\ rest' = <<>>
                /\ next_with_config(config, State(first', rest')).ret = None
        /\ (Len(out') > Len(out) /\ IsMissingParam(out'[Len(out')]))
           => rest' = <<>> ]_vars

\* -am ended the input with 'm' registered Always: MissingParam was
\* emitted, and the pull after it returned None.
C7_Witness ==
    /\ consumed >= 1
    /\ args[consumed] = <<"-", "a", "m">>
    /\ ShortPresence(config, "a") = "Never"
    /\ ShortPresence(config, "m") = "Always"
    /\ rest = <<>>
    /\ ret = Some(None)
    /\ Len(out) >= 2
    /\ LastItems(2) = << Opt(Short("a"), None, ShortToken(config, "a")),
                         MissingParam(Short("m")) >>

\* --m ended the input with "m" registered Always: MissingParam(Long).
C7_WitnessLong ==
    /\ consumed >= 1
    /\ args[consumed] = <<"-", "-", "m">>
    /\ rest = <<>>
    /\ ret = Some(None)
    /\ out # <<>>
    /\ LastItems(1) = << MissingParam(Long(<<"m">>)) >>

\* ------------------------------------------------------------------------
\* C8  Overlay precedence: for the pair (hash, common) and every short
\* character and long name, the pair answers what the first configuration
\* answers whenever that is Some, and what the second answers when the
\* first answers None; it answers something other than the first's result
\* only when the first answers None, so where both register a key with
\* different policies the pair gives the first one's.
\* ------------------------------------------------------------------------
C8_OverlayPrecedence ==
    /\ \A c \in LookupShorts :
          LET a == HashConfig_get_short_param(hash, c)
              b == Slice_get_short_param(common, c)
              p == Pair_get_short_param(<<hash, common>>, c)
          IN  /\ a # None => p = a
              /\ a = None => p = b
              /\ (a # None /\ b # a) => p # b
    /\ \A n \in LookupLongs :
          LET a == HashConfig_get_long_param(hash, n)
              b == Slice_get_long_param(common, n)
              p == Pair_get_long_param(<<hash, common>>, n)
          IN  /\ a # None => p = a
              /\ a = None => p = b
              /\ (a # None /\ b # a) => p # b

\* Both configurations register 'a', with different presences, and only
\* the second one registers long "a".
C8_Witness ==
    /\ HashConfig_get_short_param(hash, "a") = Some("Never")
    /\ Slice_get_short_param(common, "a") = Some("Always")
    /\ Pair_get_short_param(<<hash, common>>, "a") = Some("Never")
    /\ HashConfig_get_long_param(hash, <<"a">>) = None
    /\ Pair_get_long_param(<<hash, common>>, <<"a">>) = Some("IfAttached")

\* The lookup of a flag in a HashConfig, a slice and an FnConfig.
HashLookup(h, f) ==
    IF f.tag = "Short" THEN HashConfig_get_short_param(h, f.name[1])
    ELSE HashConfig_get_long_param(h, f.name)

SliceLookup(l, f) ==
    IF f.tag = "Short" THEN Slice_get_short_param(l, f.name[1])
    ELSE Slice_get_long_param(l, f.name)

FnLookup(l, f) ==
    LET fun == [g \in LookupFlags |-> fn_get(l, g)] IN
    IF f.tag = "Short" THEN FnConfig_get_short_param(fun, f.name[1])
    ELSE FnConfig_get_long_param(fun, f.name)

\* ------------------------------------------------------------------------
\* C9  Configuration strategies are equivalent: for the list of
\* registrations made so far, the HashConfig built by making them in order,
\* the slice over the list and the FnConfig over the list answer every
\* short and long lookup alike, None for an unregistered key included.
\* ------------------------------------------------------------------------
C9_StrategiesEquivalent ==
    \A f \in LookupFlags :
        /\ HashLookup(hash, f) = SliceLookup(list, f)
        /\ SliceLookup(list, f) = FnLookup(list, f)

\* No flag is registered twice in the list.
NoDuplicates(l) == \A i, j \in 1..Len(l) : l[i][1] = l[j][1] => i = j

\* The three strategies agree on every list that registers no flag twice.
StrategiesEquivalentWithoutDuplicates ==
    NoDuplicates(list) => C9_StrategiesEquivalent

\* The presence given by the last registration of the flag in the list.
LastRegistered(l, f) ==
    LET hits == {i \in 1..Len(l) : l[i][1] = f} IN
    IF hits = {} THEN None
    ELSE Some(into(l[CHOOSE i \in hits : \A j \in hits : j <= i][2]))

\* ------------------------------------------------------------------------
\* C10  HashConfig registration is last-write-wins: after every
\* registration call the lookup of each key gives the presence of the most
\* recent call that registered it, None if no call did, and the call leaves
\* the result of every key it does not register as it was; Short(c) and
\* Long("c") are different keys.
\* ------------------------------------------------------------------------
C10_LastWriteWins ==
    [][ LET added == {list'[i][1] : i \in (Len(list) + 1)..Len(list')} IN
        /\ \A f \in LookupFlags : HashLookup(hash', f) = LastRegistered(list', f)
        /\ \A f \in LookupFlags \ added : HashLookup(hash', f) = HashLookup(hash, f)
      ]_vars

\* Short 'a' was registered twice with different presences and long "a"
\* in between with a third: each lookup gives its own last registration.
C10_Witness ==
    /\ Len(list) = 3
    /\ list[1][1] = Short("a")
    /\ list[2][1] = Long(<<"a">>)
    /\ list[3][1] = Short("a")
    /\ into(list[1][2]) # into(list[3][2])
    /\ into(list[2][2]) # into(list[3][2])
    /\ HashConfig_get_short_param(hash, "a") = Some(into(list[3][2]))
    /\ HashConfig_get_long_param(hash, <<"a">>) = Some(into(list[2][2]))
    /\ HashConfig_get_short_param(hash, "v") = None

\* ------------------------------------------------------------------------
\* C11  Long flag with presence Always: when the pull reads in Start state
\* a token --name whose name is Always and a raw token X follows, it
\* returns Opt(Long(name), Some(X)) with X verbatim whatever its text, X is
\* consumed with the flag and the state is Start; when it reads
\* --name=value it returns Opt(Long(name), Some(value)) and reads no further
\* token; and an engine given the spelling --name=X returns the same item
\* as the one given --name followed by X.
\* ------------------------------------------------------------------------
C11_LongAlways ==
    [][ /\ \A name \in LongNames :
             (/\ ReadsInStart(first)
              /\ rest # <<>>
              /\ IsLongBare(Head(rest), name)
              /\ LongPresence(config, name) = "Always"
              /\ Tail(rest) # <<>>)
             => LET x    == Head(Tail(rest))
                    item == Opt(Long(name), Some(x), LongToken(config, name))
                    attached == next_with_config(config,
                                    State(Start, <<Head(rest) \o <<"=">> \o x>>
                                                 \o Tail(Tail(rest))))
                IN  /\ Emits(item)
                    /\ first' = Start
                    /\ rest' = Tail(Tail(rest))
                    /\ attached.ret = Some(item)
                    /\ attached.st = State(first', rest')
        /\ \A name \in LongNames \cup {<<>>}, value \in Values :
             (/\ ReadsInStart(first)
              /\ rest # <<>>
              /\ IsLongAttached(Head(rest), name, value)
              /\ LongPresence(config, name) = "Always")
             => /\ Emits(Opt(Long(name), Some(value), LongToken(config, name)))
                /\ first' = Start
                /\ rest' = Tail(rest) ]_vars

\* --m was followed by the token `--`, which became its parameter and was
\* not read as the end-of-options marker.
C11_Witness ==
    /\ first = Start
    /\ consumed = 2
    /\ args[1] = <<"-", "-", "m">>
    /\ args[2] = <<"-", "-">>
    /\ LongPresence(config, <<"m">>) = "Always"
    /\ out = << Opt(Long(<<"m">>), Some(<<"-", "-">>), LongToken(config, <<"m">>)) >>

\* --m=b= was read with "m" Always: the value is "b=", the next token is
\* still unread.
C11_WitnessAttached ==
    /\ first = Start
    /\ consumed = 1
    /\ rest # <<>>
    /\ IsLongAttached(args[1], <<"m">>, <<"b", "=">>)
    /\ LongPresence(config, <<"m">>) = "Always"
    /\ out = << Opt(Long(<<"m">>), Some(<<"b", "=">>), LongToken(config, <<"m">>)) >>

\* ------------------------------------------------------------------------
\* C12  Long flag with presence IfAttached: when the pull reads in Start
\* state a token --name whose name is IfAttached, it returns
\* Opt(Long(name), None), the raw token after it stays unread and the state
\* is Start, so the following pull classifies that token as it would at the
\* start of an input; when it reads --name=value it returns
\* Opt(Long(name), Some(value)).
\* ------------------------------------------------------------------------
C12_LongIfAttached ==
    [][ /\ \A name \in LongNames :
             (/\ ReadsInStart(first)
              /\ rest # <<>>
              /\ IsLongBare(Head(rest), name)
              /\ LongPresence(config, name) = "IfAttached")
             => /\ Emits(Opt(Long(name), None, LongToken(config, name)))
                /\ first' = Start
                /\ rest' = Tail(rest)
                /\ next_with_config(config, State(first', rest'))
                     = next_with_config(config, State(Start, Tail(rest)))
        /\ \A name \in LongNames \cup {<<>>}, value \in Values :
             (/\ ReadsInStart(first)
              /\ rest # <<>>
              /\ IsLongAttached(Head(rest), name, value)
              /\ LongPresence(config, name) = "IfAttached")
             => /\ Emits(Opt(Long(name), Some(value), LongToken(config, name)))
                /\ first' = Start
                /\ rest' = Tail(rest) ]_vars

\* --r was read with "r" IfAttached and a word after it: the flag has no
\* parameter and the word came out as a positional of its own.
C12_Witness ==
    /\ first = Start
    /\ consumed = 2
    /\ args[1] = <<"-", "-", "r">>
    /\ args[2] = <<"b">>
    /\ LongPresence(config, <<"r">>) = "IfAttached"
    /\ out = << Opt(Long(<<"r">>), None, LongToken(config, <<"r">>)),
                Positional(<<"b">>) >>

\* --r=b= was read with "r" IfAttached: the value is the parameter.
C12_WitnessAttached ==
    /\ first = Start
    /\ consumed = 1
    /\ IsLongAttached(args[1], <<"r">>, <<"b", "=">>)
    /\ LongPresence(config, <<"r">>) = "IfAttached"
    /\ out = << Opt(Long(<<"r">>), Some(<<"b", "=">>), LongToken(config, <<"r">>)) >>

\* ------------------------------------------------------------------------
\* C13  Short flag with presence IfAttached: when the pull classifies a
\* short flag c that is IfAttached, it returns Opt(Short(c), Some(r)) with
\* r all the characters after c in the token if there are any, and
\* Opt(Short(c), None) if there are none; either way no raw token beyond
\* the one holding c is read and the state is Start, so the following pull
\* reads the next raw token.
\* ------------------------------------------------------------------------
C13_ShortIfAttached ==
    [][ (/\ Pending # <<>>
         /\ ShortPresence(config, Head(Pending)) = "IfAttached")
        => LET c == Head(Pending)
               r == Tail(Pending)
           IN  /\ r # <<>> => Emits(Opt(Short(c), Some(r), ShortToken(config, c)))
               /\ r = <<>> => Emits(Opt(Short(c), None, ShortToken(config, c)))
               /\ first' = Start
               /\ rest' = InputAfter
               /\ next_with_config(config, State(first', rest'))
                    = next_with_config(config, State(Start, InputAfter)) ]_vars

\* -r was read with 'r' IfAttached and a word after it: no parameter, and
\* the word came out as a positional of its own.
C13_Witness ==
    /\ first = Start
    /\ consumed = 2
    /\ args[1] = <<"-", "r">>
    /\ args[2] = <<"b">>
    /\ ShortPresence(config, "r") = "IfAttached"
    /\ out = << Opt(Short("r"), None, ShortToken(config, "r")),
                Positional(<<"b">>) >>

\* -ram was read with 'r' IfAttached: "am" is its parameter although both
\* characters are registered flags.
C13_WitnessAttached ==
    /\ first = Start
    /\ consumed = 1
    /\ args[1] = <<"-", "r", "a", "m">>
    /\ ShortPresence(config, "r") = "IfAttached"
    /\ ShortPresence(config, "a") = "Never"
    /\ out = << Opt(Short("r"), Some(<<"a", "m">>), ShortToken(config, "r")) >>

\* ------------------------------------------------------------------------
\* C14  The lone hyphen is positional: when the pull reads the token `-`
\* in Start state, under any configuration, it returns Positional("-"),
\* which is the only thing collected for it (no Error), and the state is
\* Start with the tokens after it unread (ShortOpts is not entered).
\* ------------------------------------------------------------------------
C14_LoneHyphenPositional ==
    [][ (/\ ReadsInStart(first)
         /\ rest # <<>>
         /\ Head(rest) = <<"-">>)
        => /\ Emits(Positional(<<"-">>))
           /\ first' = Start
           /\ rest' = Tail(rest) ]_vars

\* `-` was read under a configuration that registers every short flag,
\* the hyphen included.
C14_Witness ==
    /\ config.kind = "Fn"
    /\ ShortPresence(config, "-") = "Always"
    /\ first = Start
    /\ consumed = 1
    /\ args[1] = <<"-">>
    /\ out = << Positional(<<"-">>) >>

\* `-` was read under the configuration that registers no flag.
C14_WitnessNoFlags ==
    /\ config = empty_config
    /\ first = Start
    /\ consumed = 1
    /\ args[1] = <<"-">>
    /\ out = << Positional(<<"-">>) >>

\* ------------------------------------------------------------------------
\* C15  Swapping the configuration keeps the tokenizer's position: a step
\* that changes the configuration changes neither the tokenizer state, nor
\* the unread input, nor the items collected before it; a pull made while a
\* short cluster is pending classifies the first pending character, and
\* only it, by the policy the current configuration gives it, whichever
\* configuration classified the characters before it; and a pull made in
\* PositionalOnly state with input left returns the next raw token as a
\* Positional and stays in PositionalOnly, whatever the configuration.
\* ------------------------------------------------------------------------
C15_SwapKeepsPosition ==
    [][ /\ config' # config
           => /\ first' = first
              /\ rest' = rest
              /\ out' = out
        /\ (config' = config /\ first.tag = "ShortOpts" /\ first.s # <<>>)
           => LET c  == Head(first.s)
                  tl == Tail(first.s)
                  p  == ShortPresence(config, c)
              IN  /\ p = "None"
                     => /\ Emits(UnknownFlag(Short(c)))
                        /\ first' = ShortOpts(tl)
                        /\ rest' = rest
                  /\ p = "Never"
                     => /\ Emits(Opt(Short(c), None, ShortToken(config, c)))
                        /\ first' = ShortOpts(tl)
                        /\ rest' = rest
                  /\ (p \in {"Always", "IfAttached"} /\ tl # <<>>)
                     => /\ Emits(Opt(Short(c), Some(tl), ShortToken(config, c)))
                        /\ first' = Start
                        /\ rest' = rest
                  /\ (p = "IfAttached" /\ tl = <<>>)
                     => /\ Emits(Opt(Short(c), None, ShortToken(config, c)))
                        /\ first' = Start
                        /\ rest' = rest
                  /\ (p = "Always" /\ tl = <<>> /\ rest # <<>>)
                     => /\ Emits(Opt(Short(c), Some(Head(rest)),
                                     ShortToken(config, c)))
                        /\ first' = Start
                        /\ rest' = Tail(rest)
                  /\ (p = "Always" /\ tl = <<>> /\ rest = <<>>)
                     => /\ Emits(MissingParam(Short(c)))
                        /\ first' = Start
                        /\ rest' = rest
        /\ (config' = config /\ first = PositionalOnly /\ rest # <<>>)
           => /\ Emits(Positional(Head(rest)))
              /\ first' = PositionalOnly
              /\ rest' = Tail(rest) ]_vars

\* -aa: the first 'a' was classified under the hash configuration, where
\* it takes no parameter, and the second after a swap to the configuration
\* that gives every flag one.
C15_Witness ==
    /\ args = << <<"-", "a", "a">> >>
    /\ config = fn_config("Always")
    /\ first = Start
    /\ rest = <<>>
    /\ out = << Opt(Short("a"), None, ShortToken(hash_config, "a")),
                MissingParam(Short("a")) >>

\* The item is Error(_).
IsError(item) == item.kind = "Error"

\* ------------------------------------------------------------------------
\* C16  Errors are in-band and do not end the iteration: a pull returns
\* None only with no short character pending and nothing left unread when
\* it returns (before it, the input was empty or held only a `--` read in
\* Start state); every other pull returns one item, an Opt, a Positional or
\* an Error of the three kinds; and a pull that returns an Error leaves
\* everything after the flag to the pulls that follow: the rest of the
\* cluster and the unread input after UnknownFlag(Short), the tokens after
\* the flag's token after an error about a long flag, and after a
\* MissingParam nothing is left.
\* ------------------------------------------------------------------------
C16_ErrorsInBand ==
    [][ /\ ret' = Some(None)
           => /\ Pending = <<>>
              /\ rest' = <<>>
              /\ \/ rest = <<>>
                 \/ ReadsInStart(first) /\ rest = << <<"-", "-">> >>
              /\ out' = out
        /\ ret' # Some(None)
           => /\ out' = Append(out, ret'[1][1])
              /\ ret'[1][1].kind \in {"Opt", "Positional", "Error"}
        /\ (Len(out') > Len(out) /\ IsError(out'[Len(out')]))
           => LET e == out'[Len(out')] IN
              /\ e.err \in {"UnknownFlag", "UnexpectedParam", "MissingParam"}
              /\ e.flag.tag = "Short"
                 => /\ Pending # <<>>
                    /\ e.flag = Short(Head(Pending))
                    /\ e.err # "UnexpectedParam"
                    /\ e.err = "UnknownFlag"
                       => first' = ShortOpts(Tail(Pending)) /\ rest' = InputAfter
                    /\ e.err = "MissingParam"
                       => /\ Tail(Pending) = <<>>
                          /\ InputAfter = <<>>
                          /\ first' = Start
                          /\ rest' = <<>>
              /\ e.flag.tag = "Long"
                 => /\ first' = Start
                    /\ rest' = Tail(rest)
                    /\ e.err = "MissingParam" => rest' = <<>> ]_vars

\* --b -ba under the hash configuration: an UnknownFlag for the long flag,
\* another for the short 'b', then 'a' was still classified, and only then
\* a pull returned None.
C16_Witness ==
    /\ config = hash_config
    /\ args = << <<"-", "-", "b">>, <<"-", "b", "a">> >>
    /\ rest = <<>>
    /\ ret = Some(None)
    /\ out = << UnknownFlag(Long(<<"b">>)),
                UnknownFlag(Short("b")),
                Opt(Short("a"), None, ShortToken(hash_config, "a")) >>

\* ------------------------------------------------------------------------
\* C17  An empty attached long value is a value: when the pull reads in
\* Start state a token `--name=`, it returns Opt(Long(name), Some("")),
\* with the empty string and not None as the parameter, if name is Always
\* or IfAttached, and Error(UnexpectedParam(Long(name), "")) if name is
\* Never; in each case the raw token after it stays unread.
\* ------------------------------------------------------------------------
C17_EmptyAttachedValue ==
    [][ \A name \in LongNames \cup {<<>>} :
          (/\ ReadsInStart(first)
           /\ rest # <<>>
           /\ IsLongAttached(Head(rest), name, <<>>))
          => /\ LongPresence(config, name) \in {"Always", "IfAttached"}
                => /\ Emits(Opt(Long(name), Some(<<>>), LongToken(config, name)))
                   /\ out'[Len(out')].param # None
                   /\ first' = Start
                   /\ rest' = Tail(rest)
             /\ LongPresence(config, name) = "Never"
                => /\ Emits(UnexpectedParam(Long(name), <<>>))
                   /\ first' = Start
                   /\ rest' = Tail(rest) ]_vars

\* --m= was read with "m" Always and a token after it: the parameter is
\* the empty string and the token is still unread.
C17_Witness ==
    /\ first = Start
    /\ consumed = 1
    /\ rest # <<>>
    /\ IsLongAttached(args[1], <<"m">>, <<>>)
    /\ LongPresence(config, <<"m">>) = "Always"
    /\ out = << Opt(Long(<<"m">>), Some(<<>>), LongToken(config, <<"m">>)) >>

\* --r= was read with "r" IfAttached.
C17_WitnessIfAttached ==
    /\ first = Start
    /\ consumed = 1
    /\ IsLongAttached(args[1], <<"r">>, <<>>)
    /\ LongPresence(config, <<"r">>) = "IfAttached"
    /\ out = << Opt(Long(<<"r">>), Some(<<>>), LongToken(config, <<"r">>)) >>

\* --a= was read with "a" Never.
C17_WitnessNever ==
    /\ first = Start
    /\ consumed = 1
    /\ IsLongAttached(args[1], <<"a">>, <<>>)
    /\ LongPresence(config, <<"a">>) = "Never"
    /\ out = << UnexpectedParam(Long(<<"a">>), <<>>) >>

\* The most items a raw token can give: one per character of a short
\* cluster, one for any other token.
Units(t) == IF IsCluster(t) THEN Len(t) - 1 ELSE 1

\* The most items a sequence of raw tokens can give.
RECURSIVE Budget(_)
Budget(ts) == IF ts = <<>> THEN 0 ELSE Units(Head(ts)) + Budget(Tail(ts))

\* The short characters of the current token not yet classified.
Unclassified(f) == IF f.tag = "ShortOpts" THEN Len(f.s) ELSE 0

\* ------------------------------------------------------------------------
\* C18  The item sequence is finite, also with the configuration swapped
\* between pulls: the items collected plus the characters still pending
\* never exceed one per character of the short clusters read and one per
\* other token read, so never more than that count for the whole input;
\* every pull either returns None or adds exactly one item, which bounds
\* the pulls that return an item by that count; and once a pull has
\* returned None, a pull under any configuration returns None again and
\* nothing is collected any more.
\* ------------------------------------------------------------------------
C18_FiniteItems ==
    [][ /\ Len(out') + Unclassified(first')
             <= Budget(SubSeq(args', 1, Len(args') - Len(rest')))
        /\ Len(out') <= Budget(args')
        /\ \/ Len(out') = Len(out) + 1 /\ ret' # Some(None)
           \/ out' = out /\ ret' = Some(None)
           \/ out' = out /\ ret' = ret /\ first' = first /\ rest' = rest
        /\ ret = Some(None) => ret' = Some(None) /\ out' = out
        /\ ret' = Some(None)
           => \A cfg \in SwapConfigs :
                 next_with_config(cfg, State(first', rest'))
                     = [ret |-> None, st |-> State(Start, <<>>)] ]_vars

\* -a --b: the short flag was classified under the hash configuration and
\* the long one after a swap to the configuration that gives every flag a
\* parameter; two items, the count for this input, and then None.
C18_Witness ==
    /\ args = << <<"-", "a">>, <<"-", "-", "b">> >>
    /\ ret = Some(None)
    /\ Len(out) = Budget(args)
    /\ out = << Opt(Short("a"), None, ShortToken(hash_config, "a")),
                MissingParam(Long(<<"b">>)) >>

\* ------------------------------------------------------------------------
\* C19  A pull consumes zero, one or two raw tokens: the unread input
\* after a pull is the unread input before it without its first zero, one
\* or two tokens; it loses two only when the pull reads in Start state
\* either a flag token whose flag is Always and takes the token after it
\* as its parameter, or `--` and returns the token after it as a
\* Positional; and it loses none only when the pull classifies a pending
\* short character or the input is used up.
\* ------------------------------------------------------------------------
C19_TokensPerPull ==
    [][ LET d == Len(rest) - Len(rest') IN
        /\ d \in {0, 1, 2}
        /\ rest' = SubSeq(rest, d + 1, Len(rest))
        /\ d = 2
           => /\ ReadsInStart(first)
              /\ \/ /\ Head(rest) = <<"-", "-">>
                    /\ Emits(Positional(rest[2]))
                 \/ /\ IsCluster(Head(rest))
                    /\ Len(Head(rest)) = 2
                    /\ ShortPresence(config, Head(rest)[2]) = "Always"
                    /\ Emits(Opt(Short(Head(rest)[2]), Some(rest[2]),
                                 ShortToken(config, Head(rest)[2])))
                 \/ \E name \in LongNames :
                       /\ IsLongBare(Head(rest), name)
                       /\ LongPresence(config, name) = "Always"
                       /\ Emits(Opt(Long(name), Some(rest[2]),
                                    LongToken(config, name)))
        /\ d = 0
           => \/ first.tag = "ShortOpts" /\ first.s # <<>>
              \/ rest = <<>> ]_vars

\* --m b and a third token: one pull took the flag with its parameter,
\* two raw tokens, and the third is still unread.
C19_Witness ==
    /\ Len(args) = 3
    /\ args[1] = <<"-", "-", "m">>
    /\ args[2] = <<"b">>
    /\ LongPresence(config, <<"m">>) = "Always"
    /\ rest = << args[3] >>
    /\ out = << Opt(Long(<<"m">>), Some(<<"b">>), LongToken(config, <<"m">>)) >>

\* -- b and a third token: one pull read the marker and the positional.
C19_WitnessMarker ==
    /\ Len(args) = 3
    /\ args[1] = <<"-", "-">>
    /\ args[2] = <<"b">>
    /\ rest = << args[3] >>
    /\ out = << Positional(<<"b">>) >>

\* -am b: the pull for 'a' read one token, the pull for 'm' one more.
C19_WitnessCluster ==
    /\ args = << <<"-", "a", "m">>, <<"b">> >>
    /\ rest = <<>>
    /\ out = << Opt(Short("a"), None, ShortToken(hash_config, "a")),
                Opt(Short("m"), Some(<<"b">>), ShortToken(hash_config, "m")) >>

\* The item is Error(UnexpectedParam(_, _)).
IsUnexpectedParam(item) == IsError(item) /\ item.err = "UnexpectedParam"

\* ------------------------------------------------------------------------
\* C20  UnexpectedParam is only emitted for a long flag: whenever a pull
\* returns Error(UnexpectedParam(flag, value)), it has read in Start state
\* a token --name=value, name being the text before the first `=`, flag is
\* Long(name) and name has presence Never; and when the pull classifies a
\* short flag with presence Never that has characters after it, it returns
\* Opt(Short(c), None), and the pull after it is about the next character
\* as a short flag and does not return UnexpectedParam either.
\* ------------------------------------------------------------------------
C20_UnexpectedParamOnlyLong ==
    [][ /\ (Len(out') > Len(out) /\ IsUnexpectedParam(out'[Len(out')]))
           => LET e == out'[Len(out')] IN
              /\ e.flag.tag = "Long"
              /\ ReadsInStart(first)
              /\ rest # <<>>
              /\ IsLongAttached(Head(rest), e.flag.name, e.param)
              /\ find(e.flag.name, "=") = None
              /\ LongPresence(config, e.flag.name) = "Never"
        /\ (/\ Len(Pending) >= 2
            /\ ShortPresence(config, Head(Pending)) = "Never")
           => LET c     == Head(Pending)
                  after == next_with_config(config, State(first', rest'))
              IN  /\ Emits(Opt(Short(c), None, ShortToken(config, c)))
                  /\ first' = ShortOpts(Tail(Pending))
                  /\ rest' = InputAfter
                  /\ after.ret # None
                  /\ after.ret[1].flag = Short(Head(Tail(Pending)))
                  /\ ~IsUnexpectedParam(after.ret[1]) ]_vars

\* -a --a=b= under the hash configuration, where both 'a' and "a" are
\* Never: the short flag gave an Opt, the long one with its value the
\* UnexpectedParam.
C20_Witness ==
    /\ config = hash_config
    /\ args = << <<"-", "a">>, <<"-", "-", "a", "=", "b", "=">> >>
    /\ out = << Opt(Short("a"), None, ShortToken(hash_config, "a")),
                UnexpectedParam(Long(<<"a">>), <<"b", "=">>) >>

\* -ab under the hash configuration: 'b' after the Never flag 'a' was
\* looked up as a short flag, which is not registered.
C20_WitnessCluster ==
    /\ config = hash_config
    /\ args = << <<"-", "a", "b">> >>
    /\ out = << Opt(Short("a"), None, ShortToken(hash_config, "a")),
                UnknownFlag(Short("b")) >>

\* ------------------------------------------------------------------------
\* C21  An unregistered long flag is an error: when the pull reads in
\* Start state a token --name or --name=value, name being the text before
\* the first `=`, and the configuration has no policy for name, it returns
\* Error(UnknownFlag(Long(name))), which is the only thing collected for
\* the token (no Positional, no Opt), the raw token after it stays unread
\* and the state is Start.
\* ------------------------------------------------------------------------
C21_UnknownLongFlag ==
    [][ \A name \in LongNames \cup {<<>>} :
          (/\ ReadsInStart(first)
           /\ rest # <<>>
           /\ \/ IsLongBare(Head(rest), name)
              \/ \E value \in Values : IsLongAttached(Head(rest), name, value)
           /\ LongPresence(config, name) = "None")
          => /\ Emits(UnknownFlag(Long(name)))
             /\ first' = Start
             /\ rest' = Tail(rest) ]_vars

\* --b=b= was read under the hash configuration, which has no "b": the
\* error names "b", and the token after it is still unread.
C21_Witness ==
    /\ config = hash_config
    /\ first = Start
    /\ consumed = 1
    /\ rest # <<>>
    /\ IsLongAttached(args[1], <<"b">>, <<"b", "=">>)
    /\ out = << UnknownFlag(Long(<<"b">>)) >>

\* --b and a word were read under the configuration with no flag at all:
\* the error, then the word as a positional of its own.
C21_WitnessBare ==
    /\ config = empty_config
    /\ args = << <<"-", "-", "b">>, <<"b">> >>
    /\ out = << UnknownFlag(Long(<<"b">>)), Positional(<<"b">>) >>

\* The policy the configuration returns for a flag.
PolicyOf(cfg, flag) ==
    IF flag.tag = "Short" THEN get_short_policy(cfg, flag.name[1])
    ELSE get_long_policy(cfg, flag.name)

\* The item carries the token the configuration gives its flag if it is an
\* Opt, and has no token at all if it is a Positional or an Error.
CarriesTokenOf(cfg, item) ==
    IF item.kind = "Opt"
    THEN /\ PolicyOf(cfg, item.flag) # None
         /\ item.token = PolicyOf(cfg, item.flag)[1].token
    ELSE "token" \notin DOMAIN item

\* ------------------------------------------------------------------------
\* C22  The caller's token is carried through unchanged: the item a pull
\* returns under the stored configuration, and the item a pull from the
\* same state would return under any supplied configuration, carries
\* exactly the token of the policy that configuration returns for the
\* item's flag if it is an Opt, and no token if it is a Positional or an
\* Error; so flags registered with different tokens keep their own.
\* ------------------------------------------------------------------------
C22_TokenCarriedThrough ==
    [][ /\ Len(out') > Len(out) => CarriesTokenOf(config, out'[Len(out')])
        /\ \A cfg \in Configs :
              LET r == next_with_config(cfg, State(first, rest)) IN
              r.ret # None => CarriesTokenOf(cfg, r.ret[1]) ]_vars

\* -a --a under the hash configuration, where the short flag 'a' and the
\* long flag "a" are registered with different tokens: each Opt carries
\* its own.
C22_Witness ==
    /\ config = hash_config
    /\ args = << <<"-", "a">>, <<"-", "-", "a">> >>
    /\ ShortToken(hash_config, "a") # LongToken(hash_config, <<"a">>)
    /\ out = << Opt(Short("a"), None, ShortToken(hash_config, "a")),
                Opt(Long(<<"a">>), None, LongToken(hash_config, <<"a">>)) >>

\* -ra under the hash configuration: 'r' takes "a" as its parameter and
\* carries the token of 'r', not that of 'a'.
C22_WitnessAttached ==
    /\ config = hash_config
    /\ args = << <<"-", "r", "a">> >>
    /\ ShortToken(hash_config, "r") # ShortToken(hash_config, "a")
    /\ out = << Opt(Short("r"), Some(<<"a">>), ShortToken(hash_config, "r")) >>

\* The text of a long token after its two hyphens.
AfterHyphens(t) == SubSeq(t, 3, Len(t))

\* The token is -- followed by a text that holds a `=`.
IsLongWithEquals(t) ==
    /\ Len(t) > 2
    /\ t[1] = "-"
    /\ t[2] = "-"
    /\ \E j \in 3..Len(t) : t[j] = "="

\* The 1-based position in the text of its first `=`.
FirstEquals(s) ==
    CHOOSE i \in 1..Len(s) : s[i] = "=" /\ \A j \in 1..(i - 1) : s[j] # "="

\* ------------------------------------------------------------------------
\* C30  A long token is split at its first `=` only: when the pull reads in
\* Start state a token --text whose text holds a `=`, the name looked up is
\* the text before the first `=` (so it holds no `=`, and is empty for
\* --=v) and the value is everything after that `=`, further `=` included:
\* the pull returns UnknownFlag(Long(name)) if name is not registered,
\* UnexpectedParam(Long(name), value) if it is registered Never, and
\* Opt(Long(name), Some(value)) with the token of name otherwise.
\* ------------------------------------------------------------------------
C30_SplitAtFirstEquals ==
    [][ (/\ ReadsInStart(first)
         /\ rest # <<>>
         /\ IsLongWithEquals(Head(rest)))
        => LET after == AfterHyphens(Head(rest))
               i     == FirstEquals(after)
               name  == SubSeq(after, 1, i - 1)
               value == SubSeq(after, i + 1, Len(after))
           IN  /\ \A j \in 1..Len(name) : name[j] # "="
               /\ LongPresence(config, name) = "None"
                    => Emits(UnknownFlag(Long(name)))
               /\ LongPresence(config, name) = "Never"
                    => Emits(UnexpectedParam(Long(name), value))
               /\ LongPresence(config, name) \in {"Always", "IfAttached"}
                    => Emits(Opt(Long(name), Some(value),
                                 LongToken(config, name))) ]_vars

\* --m=b= was read under the hash configuration: the name is "m" and the
\* value is "b=", its `=` kept.
C30_Witness ==
    /\ config = hash_config
    /\ args = << <<"-", "-", "m", "=", "b", "=">> >>
    /\ out = << Opt(Long(<<"m">>), Some(<<"b", "=">>), "long_m") >>

\* --=b= was read under a configuration that knows every name: the name
\* looked up is the empty one.
C30_WitnessEmptyName ==
    /\ config = fn_config("Always")
    /\ args = << <<"-", "-", "=", "b", "=">> >>
    /\ out # <<>>
    /\ out[1].kind = "Opt"
    /\ out[1].flag = Long(<<>>)
    /\ out[1].param = Some(<<"b", "=">>)

\* The presence a boolean stands for.
OfBool(p) == IF p = "true" THEN "Always" ELSE "Never"

\* ------------------------------------------------------------------------
\* C28  Boolean registration shorthand: after a registration call made
\* with `true` (short, long, both or opt) the HashConfig gives each flag
\* the call registered the presence Always, and after one made with `false`
\* the presence Never; the slice holding the entries of the call and the
\* FnConfig whose closure returns their booleans answer the same.  A
\* boolean never gives IfAttached.
\* ------------------------------------------------------------------------
C28_BoolShorthand ==
    [][ \A i \in (Len(list) + 1)..Len(list') :
          list'[i][2] \in {"true", "false"}
          => LET f == list'[i][1]
                 p == list'[i][2]
             IN  /\ HashLookup(hash', f) = Some(OfBool(p))
                 /\ SliceLookup(<< list'[i] >>, f) = Some(OfBool(p))
                 /\ FnLookup(<< list'[i] >>, f) = Some(OfBool(p))
                 /\ HashLookup(hash', f) # Some("IfAttached") ]_vars

\* Short 'a' was registered with true and long "v" with false: the lookups
\* give Always and Never.
C28_Witness ==
    /\ list = << <<Short("a"), "true">>, <<Long(<<"v">>), "false">> >>
    /\ HashConfig_get_short_param(hash, "a") = Some("Always")
    /\ HashConfig_get_long_param(hash, <<"v">>) = Some("Never")
    /\ Slice_get_short_param(list, "a") = Some("Always")
    /\ Slice_get_long_param(list, <<"v">>) = Some("Never")

\* ------------------------------------------------------------------------
\* Looking flags up in configurations an engine borrows.
\* ------------------------------------------------------------------------

\* The size of the input of the engine that runs between the lookups.
MaxLookupInput == 1

\* HashConfig::new() followed by one opt call per entry of the list.
RECURSIVE from_list(_)
from_list(l) ==
    IF l = <<>> THEN new
    ELSE opt(from_list(SubSeq(l, 1, Len(l) - 1)), l[Len(l)][1], l[Len(l)][2])

\* The registration lists looked up in, each with the slice configuration
\* paired with it: booleans as in tests::bare_bool_config, and a list that
\* registers short 'a' twice.
LookupSetups ==
    { << << <<Short("a"), "false">>, <<Long(<<"a">>), "false">>,
            <<Short("v"), "true">>,  <<Long(<<"v">>), "true">> >>,
         << >> >>,
      << << <<Short("a"), "Always">>, <<Short("a"), "IfAttached">>,
            <<Long(<<"a">>), "Never">> >>,
         << <<Short("v"), "Never">>, <<Long(<<"v">>), "Never">> >> >> }

LookupInit ==
    /\ \E setup \in LookupSetups :
          /\ list = setup[1]
          /\ hash = from_list(setup[1])
          /\ common = setup[2]
    /\ config \in SwapConfigs
    /\ Inputs(<<>>, MaxLookupInput)
    /\ first = Start
    /\ rest = args
    /\ out = <<>>
    /\ ret = None
    /\ AuxInit

\* What each configuration answers for the key: the HashConfig, the slice
\* over the list, the FnConfig over the list, the pair of the HashConfig
\* and the common slice, and the configuration of the engine.
AnswersIn(h, l, c, cfg, f) ==
    [key    |-> f,
     hash   |-> HashLookup(h, f),
     slice  |-> SliceLookup(l, f),
     fn     |-> FnLookup(l, f),
     pair   |-> IF f.tag = "Short"
                THEN Pair_get_short_param(<<h, c>>, f.name[1])
                ELSE Pair_get_long_param(<<h, c>>, f.name),
     engine |-> PolicyOf(cfg, f)]

\* The answers in the current state.
Answers(f) == AnswersIn(hash, list, common, config, f)

\* A lookup that takes the entry out of the HashConfig.
get_param_removes ==
    \E f \in LookupFlags :
        /\ lookup' = Some(Answers(f))
        /\ hash' = IF f.tag = "Short"
                   THEN [hash EXCEPT !.short_opts =
                            [k \in DOMAIN @ \ {f.name[1]} |-> @[k]]]
                   ELSE [hash EXCEPT !.long_opts =
                            [k \in DOMAIN @ \ {f.name} |-> @[k]]]
        /\ UNCHANGED <<list, common>>
        /\ UNCHANGED iter_vars
        /\ UNCHANGED <<cmp, iter, results, builder, calls, arg_item, supplied>>

\* Config::get_short_param / get_long_param on every configuration, from
\* outside the engine: the methods take &self and assign nothing.
get_param ==
    \E f \in LookupFlags :
        /\ lookup' = Some(Answers(f))
        /\ UNCHANGED config_vars
        /\ UNCHANGED iter_vars
        /\ UNCHANGED <<cmp, iter, results, builder, calls, arg_item, supplied>>

LookupNext == get_param \/ next

SpecLookup == LookupInit /\ [][LookupNext]_vars

Owned(flag) == [tag |-> flag.tag, name |-> flag.name, repr |-> "String"]

\* The characters and the texts flags are made of; "a" is also the text of
\* the character 'a'.
FlagChars == {"a", "v", "z"}

FlagTexts == {<<>>, <<"a">>, <<"v">>, <<"a", "v">>, <<"v", "a">>}

\* The flags `is` is called on.
SelfFlags ==
    {Short(c) : c \in FlagChars}
    \cup {Long(t) : t \in FlagTexts}
    \cup {Owned(Long(t)) : t \in FlagTexts}

\* The arguments of `is`: a char or a &str.
OtherArgs ==
    {[char |-> c] : c \in FlagChars} \cup {[str |-> t] : t \in FlagTexts}

\* impl From<char> for Flag<L> and impl From<&str> for Flag<&str>
from(x) == IF DOMAIN x = {"char"} THEN Short(x.char) ELSE Long(x.str)

FlagInit ==
    /\ cmp \in {[self |-> f, other |-> None, ret |-> None] : f \in SelfFlags}
    /\ lookup = None
    /\ iter = None
    /\ results = None
    /\ builder = None
    /\ calls = None
    /\ arg_item = None
    /\ supplied = None
    /\ config = hash_config
    /\ args = <<>>
    /\ first = Start
    /\ rest = <<>>
    /\ out = <<>>
    /\ ret = None
    /\ hash = new
    /\ list = <<>>
    /\ common = <<>>

\* self.is(other)
Flag_is ==
    \E other \in OtherArgs :
        /\ cmp' = [self  |-> cmp.self,
                   other |-> Some(other),
                   ret   |-> Some(is(cmp.self, from(other)))]
        /\ UNCHANGED low_vars
        /\ UNCHANGED <<lookup, iter, results, builder, calls, arg_item, supplied>>

FlagNext == Flag_is

SpecFlag == FlagInit /\ [][FlagNext]_vars

\* ------------------------------------------------------------------------
\* C23  Flag::is compares by kind and text, whatever holds the text: a
\* Short(c1) `is` the character c2 exactly if c1 = c2; a Long(s1), its name
\* owned or borrowed, `is` the text s2 exactly if the two texts are equal;
\* and a Short never `is` a text nor a Long a character, even when the text
\* is the one-character string of the short flag.
\* ------------------------------------------------------------------------
C23_FlagIs ==
    cmp.ret # None =>
        LET self   == cmp.self
            other  == cmp.other[1]
            char   == DOMAIN other = {"char"}
        IN  /\ (self.tag = "Short" /\ char)
                 => cmp.ret[1] = (self.name = <<other.char>>)
            /\ (self.tag = "Long" /\ ~char)
                 => cmp.ret[1] = (self.name = other.str)
            /\ (self.tag = "Short" /\ ~char) => cmp.ret[1] = FALSE
            /\ (self.tag = "Long" /\ char) => cmp.ret[1] = FALSE

\* The owned long name "a" was compared with the borrowed text "a": they
\* are the same flag.
C23_Witness ==
    /\ cmp.self = Owned(Long(<<"a">>))
    /\ cmp.other = Some([str |-> <<"a">>])
    /\ cmp.ret = Some(TRUE)

\* Short 'a' was compared with the text "a": not the same flag.
C23_WitnessKinds ==
    /\ cmp.self = Short("a")
    /\ cmp.other = Some([str |-> <<"a">>])
    /\ cmp.ret = Some(FALSE)

\* ------------------------------------------------------------------------
\* The older slice engine low::Iter (low/iter.rs).  Its items carry no
\* token and its configuration answers with a Presence.  self.state is
\* kept in first and self.args in rest.
\* ------------------------------------------------------------------------

\* The number of items collect() takes from the older engine.
MaxItems == 5

\* low::iter::Item::Opt
Iter_Opt(flag, param) == [kind |-> "Opt", flag |-> flag, param |-> param]

\* Iter::next_arg
Iter_next_arg(st) ==
    IF st.rest # <<>>
    THEN [ret |-> Some(Head(st.rest)), st |-> State(st.first, Tail(st.rest))]
    ELSE [ret |-> None, st |-> State(Start, st.rest)]

\* Iter::parse_long
Iter_parse_long(cfg, st, after_hyphens) ==
    LET index == find(after_hyphens, "=") IN
    IF index # None
    THEN LET name  == slice_to(after_hyphens, index[1])
             param == slice_from(after_hyphens, index[1] + 1)
             flag  == Long(name)
             found == HashConfig_get_long_param(cfg, name)
         IN  [ret |-> IF found = None THEN UnknownFlag(flag)
                      ELSE IF found = Some("Never")
                      THEN UnexpectedParam(flag, param)
                      ELSE Iter_Opt(flag, Some(param)),
              st  |-> st]
    ELSE LET flag  == Long(after_hyphens)
             found == HashConfig_get_long_param(cfg, after_hyphens)
             na    == Iter_next_arg(st)
         IN  IF found = None THEN [ret |-> UnknownFlag(flag), st |-> st]
             ELSE IF found = Some("Always")
             THEN [ret |-> IF na.ret = None THEN MissingParam(flag)
                           ELSE Iter_Opt(flag, Some(na.ret[1])),
                   st  |-> na.st]
             ELSE [ret |-> Iter_Opt(flag, None), st |-> st]

\* Iter::parse_short; st.first is still ShortOpts of the text that begins
\* with c, and the arms that do not assign self.state leave it so.
Iter_parse_short(cfg, st, c, after) ==
    LET flag  == Short(c)
        found == HashConfig_get_short_param(cfg, c)
        na    == Iter_next_arg(st)
    IN  IF found = None
        THEN [ret |-> UnknownFlag(flag), st |-> State(ShortOpts(after), st.rest)]
        ELSE IF found = Some("Always")
        THEN IF after = <<>>
             THEN IF na.ret = None
                  THEN [ret |-> MissingParam(flag), st |-> na.st]
                  ELSE [ret |-> Iter_Opt(flag, Some(na.ret[1])),
                        st  |-> State(Start, na.st.rest)]
             ELSE [ret |-> Iter_Opt(flag, Some(after)),
                   st  |-> State(Start, st.rest)]
        ELSE IF found = Some("IfAttached")
        THEN IF after = <<>>
             THEN [ret |-> Iter_Opt(flag, None), st |-> st]
             ELSE [ret |-> Iter_Opt(flag, Some(after)),
                   st  |-> State(Start, st.rest)]
        ELSE [ret |-> Iter_Opt(flag, None),
              st  |-> State(ShortOpts(after), st.rest)]

\* Iterator::next for Iter: the loop, up to its return.
RECURSIVE Iter_next(_, _)
Iter_next(cfg, st) ==
    CASE st.first.tag = "Start" ->
            LET na == Iter_next_arg(st) IN
            IF na.ret = None THEN [ret |-> None, st |-> na.st]
            ELSE LET arg == na.ret[1]
                     sf  == split_first_str(arg)
                 IN  IF sf # None /\ sf[1][1] = "-"
                     THEN LET after == sf[1][2]
                              sf2   == split_first_str(after)
                              pl    == Iter_parse_long(cfg, na.st, sf2[1][2])
                          IN  IF sf2 = None
                              THEN [ret |-> Some(Positional(arg)), st |-> na.st]
                              ELSE IF sf2[1][1] = "-" /\ sf2[1][2] = <<>>
                              THEN Iter_next(cfg, State(PositionalOnly, na.st.rest))
                              ELSE IF sf2[1][1] = "-"
                              THEN [ret |-> Some(pl.ret), st |-> pl.st]
                              ELSE Iter_next(cfg,
                                       State(ShortOpts(after), na.st.rest))
                     ELSE [ret |-> Some(Positional(arg)), st |-> na.st]
      [] st.first.tag = "ShortOpts" ->
            LET sf == split_first_str(st.first.s) IN
            IF sf = None
            THEN Iter_next(cfg, State(Start, st.rest))
            ELSE LET ps == Iter_parse_short(cfg, st, sf[1][1], sf[1][2])
                 IN  [ret |-> Some(ps.ret), st |-> ps.st]
      [] st.first.tag = "PositionalOnly" ->
            LET na == Iter_next_arg(st) IN
            IF na.ret = None THEN [ret |-> None, st |-> na.st]
            ELSE [ret |-> Some(Positional(na.ret[1])), st |-> na.st]

\* The configurations of the older engine: 'a' never takes a parameter,
\* 'm' always does and 'r' takes one if attached, as in the configuration
\* tests; and every one of the three takes one if attached, after the
\* Presence::IfAttached example.
IterConfigs ==
    { from_list(<< <<Short("a"), "false">>,      <<Long(<<"a">>), "false">>,
                   <<Short("m"), "true">>,       <<Long(<<"m">>), "true">>,
                   <<Short("r"), "IfAttached">>, <<Long(<<"r">>), "IfAttached">> >>),
      from_list(<< <<Short("a"), "IfAttached">>, <<Long(<<"a">>), "IfAttached">>,
                   <<Short("m"), "IfAttached">>, <<Long(<<"m">>), "IfAttached">>,
                   <<Short("r"), "IfAttached">>, <<Long(<<"r">>), "IfAttached">> >>) }

\* Iter::new(config, args)
IterInit ==
    /\ config \in IterConfigs
    /\ Inputs(<<>>, MaxInput)
    /\ first = Start
    /\ rest = args
    /\ out = <<>>
    /\ ret = None
    /\ hash = new
    /\ list = <<>>
    /\ common = <<>>
    /\ AuxInit

\* One pull of collect() on the older engine.
Iter_pull ==
    LET r == Iter_next(config, State(first, rest)) IN
    /\ Len(out) < MaxItems
    /\ ret # Some(None)
    /\ first' = r.st.first
    /\ rest' = r.st.rest
    /\ ret' = Some(r.ret)
    /\ out' = IF r.ret = None THEN out ELSE Append(out, r.ret[1])
    /\ UNCHANGED <<config, args>>
    /\ UNCHANGED config_vars
    /\ UNCHANGED aux_vars

IterNext == Iter_pull

SpecIter == IterInit /\ [][IterNext]_vars

\* ------------------------------------------------------------------------
\* C29  Older engine, short flag IfAttached with nothing attached: when
\* the pull of low::Iter classifies a short flag c that is the last
\* character of its token and has presence IfAttached, it returns
\* Opt(Short(c), None) and the state is Start afterwards, the raw tokens
\* after the cluster unread, so that the following pull reads the next raw
\* token and c is not emitted again.
\* ------------------------------------------------------------------------
C29_OlderIfAttachedAlone ==
    [][ (/\ Pending # <<>>
         /\ Tail(Pending) = <<>>
         /\ HashConfig_get_short_param(config, Head(Pending)) = Some("IfAttached"))
        => /\ ret' = Some(Some(Iter_Opt(Short(Head(Pending)), None)))
           /\ out' = Append(out, Iter_Opt(Short(Head(Pending)), None))
           /\ first' = Start
           /\ rest' = InputAfter ]_vars

\* What the older engine does: the flag is returned and the state is left
\* ShortOpts of the text that still begins with c.
C29_OlderStateKept ==
    [][ (/\ Pending # <<>>
         /\ Tail(Pending) = <<>>
         /\ HashConfig_get_short_param(config, Head(Pending)) = Some("IfAttached"))
        => /\ ret' = Some(Some(Iter_Opt(Short(Head(Pending)), None)))
           /\ first' = ShortOpts(Pending)
           /\ rest' = InputAfter ]_vars

\* -r alone was given, 'r' taking a parameter if attached: the one flag has
\* been collected five times.
C29_Repeated ==
    /\ args = << <<"-", "r">> >>
    /\ out = [i \in 1..MaxItems |-> Iter_Opt(Short("r"), None)]
    /\ first = ShortOpts(<<"r">>)

\* ------------------------------------------------------------------------
\* The high-level parser (lib.rs): Builder, Arg and Iter.
\* ------------------------------------------------------------------------

\* The size of the argument list given to Builder::iter: a cluster counts
\* its characters, --name=value counts two, any other argument one.
MaxArgs == 3

\* Result::Ok and Result::Err
Ok(value) == [ok |-> value]

Err(message) == [err |-> message]

\* The text is a float literal: an optional minus sign and one or more
\* digits (the texts hold no other character a float is written with).
is_float(text) ==
    LET digits == IF text # <<>> /\ Head(text) = "-" THEN Tail(text) ELSE text
    IN  digits # <<>> /\ \A i \in 1..Len(digits) : digits[i] = "5"

\* The number a string of digits 5 stands for, in units of its last digit.
RECURSIVE number(_)
number(digits) ==
    IF digits = <<>> THEN 0
    ELSE 10 * number(SubSeq(digits, 1, Len(digits) - 1)) + 5

\* str::parse::<f32>
parse(text) ==
    IF ~is_float(text) THEN Err(<<"invalid float literal">>)
    ELSE IF Head(text) = "-" THEN Ok(0 - number(Tail(text)))
    ELSE Ok(number(text))

\* parse_map(slice, success)
parse_map(slice, success) ==
    IF "ok" \in DOMAIN parse(slice)
    THEN Ok([opt |-> success, value |-> parse(slice).ok])
    ELSE Err(parse(slice).err)

\* Arg::param(name, parser), the parser being parse_map with the variant.
Arg_param(name, parser) ==
    [name |-> name, action |-> parser, short |-> None, long |-> <<>>]

\* Arg::flag(thunk): a parameter argument with the empty name whose action
\* ignores its text.
Arg_flag(thunk) == Arg_param(<<>>, [thunk |-> thunk])

\* Arg::short
Arg_short(self, c) == [self EXCEPT !.short = Some(c)]

\* Arg::long
Arg_long(self, text) == [self EXCEPT !.long = text]

\* (self.action)(text)
action(self, text) ==
    IF DOMAIN self.action = {"thunk"} THEN Ok([opt |-> self.action.thunk])
    ELSE parse_map(text, self.action.variant)

\* Iterator::next on the arguments not yet read.
args_next(remaining) ==
    IF remaining = <<>> THEN [ret |-> None, rest |-> remaining]
    ELSE [ret |-> Some(Head(remaining)), rest |-> Tail(remaining)]

\* Arg::parse_positional
Arg_parse_positional(self, arg) ==
    IF self.short = None /\ self.long = <<>> THEN Some(action(self, arg))
    ELSE None

\* Arg::parse_optional, the argument beginning with a second hyphen: the
\* long name, bare or followed by `=` and the parameter.
parse_optional_long(self, arg, remaining) ==
    LET index == find(arg, "=")
        nx    == args_next(remaining)
    IN  IF Tail(arg) = self.long
        THEN IF self.name = <<>>
             THEN [ret |-> Some(action(self, <<>>)), arg |-> <<>>,
                   rest |-> remaining]
             ELSE IF nx.ret # None
             THEN [ret |-> Some(action(self, nx.ret[1])), arg |-> <<>>,
                   rest |-> nx.rest]
             ELSE [ret |-> Some(Err(<<"requires parameter", "--">> \o self.long)),
                   arg |-> <<>>, rest |-> nx.rest]
        ELSE IF index # None /\ SubSeq(arg, 2, index[1]) = self.long
        THEN [ret |-> Some(action(self, slice_from(arg, index[1] + 1))),
              arg |-> <<>>, rest |-> remaining]
        ELSE [ret |-> None, arg |-> arg, rest |-> remaining]

\* A short option that asks for the next argument although text is attached.
parse_optional_short_takes_next(self, arg, remaining) ==
    LET nx == args_next(remaining) IN
    IF self.name = <<>>
    THEN [ret |-> Some(action(self, <<>>)), arg |-> Tail(arg), rest |-> remaining]
    ELSE IF nx.ret # None
    THEN [ret |-> Some(action(self, nx.ret[1])), arg |-> Tail(arg),
          rest |-> nx.rest]
    ELSE [ret |-> Some(Err(<<"requires parameter", "-", Head(arg)>>)),
          arg |-> Tail(arg), rest |-> nx.rest]

\* Arg::parse_optional, the argument beginning with the short name of
\* self: a flag leaves the text after the name in arg, a parameter option
\* takes it, or the next argument if there is no text.
parse_optional_short(self, arg, remaining) ==
    LET nx == args_next(remaining) IN
    IF self.name = <<>>
    THEN [ret |-> Some(action(self, <<>>)), arg |-> Tail(arg), rest |-> remaining]
    ELSE IF Tail(arg) = <<>>
    THEN IF nx.ret # None
         THEN [ret |-> Some(action(self, nx.ret[1])), arg |-> <<>>,
               rest |-> nx.rest]
         ELSE [ret |-> Some(Err(<<"requires parameter", "-", Head(arg)>>)),
               arg |-> <<>>, rest |-> nx.rest]
    ELSE [ret |-> Some(action(self, Tail(arg))), arg |-> <<>>, rest |-> remaining]

\* Arg::parse_optional; arg is the text after the first hyphen.
Arg_parse_optional(self, arg, remaining) ==
    IF arg # <<>>
    THEN IF Head(arg) = "-" THEN parse_optional_long(self, arg, remaining)
         ELSE IF Some(Head(arg)) = self.short
         THEN parse_optional_short(self, arg, remaining)
         ELSE [ret |-> None, arg |-> arg, rest |-> remaining]
    ELSE IF self.name = <<>>
    THEN [ret |-> Some(action(self, <<"-">>)), arg |-> <<>>, rest |-> remaining]
    ELSE [ret |-> None, arg |-> arg, rest |-> remaining]

\* Builder::parse_positional: the first argument description that takes it.
Builder_parse_positional(self, arg) ==
    LET hits == {i \in 1..Len(self) : Arg_parse_positional(self[i], arg) # None}
    IN  IF hits = {} THEN None
        ELSE Arg_parse_positional(self[CHOOSE i \in hits : \A j \in hits : i <= j],
                                  arg)

\* An iterator that forgets the text left of a cluster.
push_back_nothing(arg) == None

\* The text left in arg after an option was parsed goes back in front of
\* the arguments, behind a hyphen.
push_back_of(arg) == IF arg # <<>> THEN Some(<<"-">> \o arg) ELSE None

\* Iterator::next for the high-level Iter; self is the list of argument
\* descriptions self.config.args.
Iter_next_item(self, st) ==
    LET nx   == args_next(st.args)
        item == IF st.push_back # None THEN st.push_back ELSE nx.ret
        left == IF st.push_back # None THEN st.args ELSE nx.rest
        arg  == Tail(item[1])
        hits == {i \in 1..Len(self) :
                    Arg_parse_optional(self[i], arg, left).ret # None}
        po   == Arg_parse_optional(
                    self[CHOOSE i \in hits : \A j \in hits : i <= j], arg, left)
    IN  IF item = None
        THEN [ret |-> None,
              st  |-> [st EXCEPT !.push_back = None, !.args = left]]
        ELSE IF item[1] # <<>> /\ Head(item[1]) = "-"
        THEN IF hits # {}
             THEN [ret |-> Some(po.ret[1]),
                   st  |-> [st EXCEPT !.push_back = push_back_of(po.arg),
                                      !.args = po.rest]]
             ELSE [ret |-> Some(Err(<<"Unknown option", "-">> \o arg)),
                   st  |-> [st EXCEPT !.push_back = None, !.args = left]]
        ELSE [ret |-> Builder_parse_positional(self, item[1]),
              st  |-> [st EXCEPT !.push_back = None, !.args = left]]

\* The names of tests::get_builder.
louder == <<"l", "o", "u", "d", "e", "r">>

softer == <<"s", "o", "f", "t", "e", "r">>

freq == <<"f", "r", "e", "q">>

\* tests::get_builder: the flags -l/--louder and -s/--softer and the
\* option -f/--freq with the parameter FREQ, parsed as a float.
get_builder ==
    << Arg_long(Arg_short(Arg_flag("Louder"), "l"), louder),
       Arg_long(Arg_short(Arg_flag("Softer"), "s"), softer),
       Arg_long(Arg_short(Arg_param(<<"F", "R", "E", "Q">>, [variant |-> "Freq"]),
                          "f"), freq) >>

\* The characters of the clusters given: the three short names, a digit
\* and the hyphen.
ArgChars == {"l", "s", "f", "5", "-"}

\* -c1..cn for a given n >= 1, c1 not a hyphen.
ClusterArgs(n) ==
    {<<"-">> \o cl : cl \in {c \in [1..n -> ArgChars] : c[1] # "-"}}

\* The long names given: the three registered ones and one that is not.
ArgNames == {louder, softer, freq, <<"x">>}

\* The texts attached with `=`.
ArgValues == {<<>>, <<"5">>, <<"-", "5">>, <<"5", "=">>}

\* The arguments that are not options: the empty string, a number, the
\* lone hyphen and the double hyphen.
PlainArgs == {<<>>, <<"5">>, <<"-">>, <<"-", "-">>}

ArgsOfSize(n) ==
    ClusterArgs(n)
    \cup (IF n = 1 THEN {<<"-", "-">> \o name : name \in ArgNames} \cup PlainArgs
          ELSE {})
    \cup (IF n = 2
          THEN {<<"-", "-">> \o name \o <<"=">> \o v :
                    name \in ArgNames, v \in ArgValues}
          ELSE {})

\* The argument lists: args is prefix followed by any arguments of total
\* size at most n.
RECURSIVE ArgLists(_, _)
ArgLists(prefix, n) ==
    \/ args = prefix
    \/ \E k \in 1..n : \E t \in ArgsOfSize(k) : ArgLists(Append(prefix, t), n - k)

\* Builder::iter(args) on tests::get_builder.
ParseInit ==
    /\ ArgLists(<<>>, MaxArgs)
    /\ iter = [args |-> args, push_back |-> None, positional |-> FALSE]
    /\ results = <<>>
    /\ ret = None
    /\ config = hash_config
    /\ first = Start
    /\ rest = <<>>
    /\ out = <<>>
    /\ hash = new
    /\ list = <<>>
    /\ common = <<>>
    /\ lookup = None
    /\ cmp = None
    /\ builder = None
    /\ calls = None
    /\ arg_item = None
    /\ supplied = None

\* One pull of collect() on the high-level Iter; collect() stops at the
\* first None.
Iter_next_pull ==
    LET r == Iter_next_item(get_builder, iter) IN
    /\ ret # Some(None)
    /\ iter' = r.st
    /\ ret' = Some(r.ret)
    /\ results' = IF r.ret = None THEN results ELSE Append(results, r.ret[1])
    /\ UNCHANGED <<config, first, rest, args, out>>
    /\ UNCHANGED config_vars
    /\ UNCHANGED <<lookup, cmp, builder, calls, arg_item, supplied>>

ParseNext == Iter_next_pull

SpecParse == ParseInit /\ [][ParseNext]_vars

\* Builder::iter(args).collect(): the results up to the first None.
RECURSIVE collect(_, _)
collect(self, st) ==
    LET r == Iter_next_item(self, st) IN
    IF r.ret = None THEN <<>> ELSE <<r.ret[1]>> \o collect(self, r.st)

\* The Iter that Builder::iter returns for the arguments.
Builder_iter(arguments) ==
    [args |-> arguments, push_back |-> None, positional |-> FALSE]

\* The argument description with this short name, and whether there is one.
HasShort(self, c) == \E i \in 1..Len(self) : self[i].short = Some(c)

WithShort(self, c) == self[CHOOSE i \in 1..Len(self) : self[i].short = Some(c)]

\* The argument is a cluster of registered short flags that take no
\* parameter.
IsFlagCluster(self, t) ==
    /\ Len(t) >= 2
    /\ t[1] = "-"
    /\ \A i \in 2..Len(t) : HasShort(self, t[i]) /\ WithShort(self, t[i]).name = <<>>

\* The characters of the clusters of the list, in order.
RECURSIVE Letters(_)
Letters(l) == IF l = <<>> THEN <<>> ELSE Tail(Head(l)) \o Letters(Tail(l))

\* collect() has taken every result: the latest pull returned None.
Collected == ret = Some(None)

\* ------------------------------------------------------------------------
\* C24  High-level parser, short clustering: when the arguments are
\* clusters of registered short flags that take no parameter, the results
\* collected from them are those collected from the one cluster that holds
\* all their characters in order, namely one result per character, in
\* order, each the value of the flag of that character; so every way of
\* splitting a cluster into `-`-prefixed arguments gives the same results.
\* ------------------------------------------------------------------------
C24_ClusterSplit ==
    (/\ Collected
     /\ args # <<>>
     /\ \A i \in 1..Len(args) : IsFlagCluster(get_builder, args[i]))
    => /\ results = collect(get_builder,
                            Builder_iter(<< <<"-">> \o Letters(args) >>))
       /\ Len(results) = Len(Letters(args))
       /\ \A k \in 1..Len(results) :
            results[k] =
                Ok([opt |-> WithShort(get_builder, Letters(args)[k]).action.thunk])

\* -s -ls was given: Softer, Louder, Softer, as for -sls.
C24_Witness ==
    /\ args = << <<"-", "s">>, <<"-", "l", "s">> >>
    /\ Collected
    /\ results = << Ok([opt |-> "Softer"]), Ok([opt |-> "Louder"]),
                    Ok([opt |-> "Softer"]) >>

\* -sls was given as one cluster.
C24_WitnessCluster ==
    /\ args = << <<"-", "s", "l", "s">> >>
    /\ Collected
    /\ results = << Ok([opt |-> "Softer"]), Ok([opt |-> "Louder"]),
                    Ok([opt |-> "Softer"]) >>

\* The result is an error.
IsErr(result) == "err" \in DOMAIN result

\* The argument the next pull takes, if any.
NextItem ==
    IF iter.push_back # None THEN iter.push_back
    ELSE IF iter.args # <<>> THEN Some(Head(iter.args))
    ELSE None

\* The arguments left after the one the next pull takes.
AfterItem == IF iter.push_back # None THEN iter.args ELSE Tail(iter.args)

\* ------------------------------------------------------------------------
\* C25  High-level parser, parameter spellings: with -f/--freq registered
\* with a parameter, for every non-empty X the argument lists `-fX`,
\* `-f X`, `--freq=X` and `--freq X` each give exactly one result, the
\* action of the option applied to X (the float X stands for, or the error
\* of parsing X); and when the pull takes -f or --freq and no argument is
\* left after it, it returns an error result.
\* ------------------------------------------------------------------------
C25_ParamSpellings ==
    /\ [](Collected =>
            /\ (Len(args) = 1 /\ Len(args[1]) > 2
                /\ SubSeq(args[1], 1, 2) = <<"-", "f">>)
                 => results = << parse_map(SubSeq(args[1], 3, Len(args[1])), "Freq") >>
            /\ (Len(args) = 2 /\ args[1] = <<"-", "f">> /\ args[2] # <<>>)
                 => results = << parse_map(args[2], "Freq") >>
            /\ (Len(args) = 1 /\ Len(args[1]) > 7
                /\ SubSeq(args[1], 1, 7) = <<"-", "-">> \o freq \o <<"=">>)
                 => results = << parse_map(SubSeq(args[1], 8, Len(args[1])), "Freq") >>
            /\ (Len(args) = 2 /\ args[1] = <<"-", "-">> \o freq /\ args[2] # <<>>)
                 => results = << parse_map(args[2], "Freq") >>)
    /\ [][ (/\ NextItem \in {Some(<<"-", "f">>), Some(<<"-", "-">> \o freq)}
            /\ AfterItem = <<>>)
           => /\ ret' # None
              /\ ret'[1] # None
              /\ IsErr(ret'[1][1])
              /\ results' = Append(results, ret'[1][1]) ]_vars

\* --freq=-5 was given: the one result is the frequency -5.
C25_Witness ==
    /\ args = << <<"-", "-">> \o freq \o <<"=", "-", "5">> >>
    /\ Collected
    /\ results = << Ok([opt |-> "Freq", value |-> 0 - 5]) >>

\* -f5 was given, the value attached to the short name.
C25_WitnessShortAttached ==
    /\ args = << <<"-", "f", "5">> >>
    /\ Collected
    /\ results = << Ok([opt |-> "Freq", value |-> 5]) >>

\* -f and --louder were given: the action is applied to the text --louder,
\* which is no float.
C25_WitnessDetached ==
    /\ args = << <<"-", "f">>, <<"-", "-">> \o louder >>
    /\ Collected
    /\ Len(results) = 1
    /\ IsErr(results[1])

\* -s and -f were given: -f is the last argument and has no value.
C25_WitnessMissing ==
    /\ args = << <<"-", "s">>, <<"-", "f">> >>
    /\ Collected
    /\ Len(results) = 2
    /\ results[1] = Ok([opt |-> "Softer"])
    /\ IsErr(results[2])

\* ------------------------------------------------------------------------
\* The high-level configuration (config.rs): Config::new, then calls of
\* arg_safe.
\* ------------------------------------------------------------------------

\* The number of calls of arg_safe.
MaxCalls == 3

\* util::non_empty_string
non_empty_string(text) == IF text = <<>> THEN None ELSE Some(text)

\* Arg::is_positional: the argument has neither a short nor a long name.
Arg_is_positional(self) == self.short = None /\ self.long = <<>>

\* Arg::get_short
Arg_get_short(self) == self.short

\* Arg::get_long: the long name, if it is not empty.
Arg_get_long(self) == non_empty_string(self.long)

\* Config::new
Config_new ==
    [args |-> <<>>, short_map |-> <<>>, long_map |-> <<>>, positional |-> None]

\* Config::arg_safe: the positional argument is kept aside; the short name
\* is entered in short_map, then the long name in long_map, each return of
\* Err leaving what was entered before it; then the argument is pushed.
arg_safe(self, arg) ==
    LET index  == Len(self.args)
        c      == Arg_get_short(arg)
        l      == Arg_get_long(arg)
        shorts == IF c = None THEN self.short_map
                  ELSE insert(self.short_map, c[1], index)
        longs  == IF l = None THEN self.long_map
                  ELSE insert(self.long_map, l[1], index)
    IN  IF Arg_is_positional(arg)
        THEN IF self.positional = None
             THEN [ret |-> Ok(<<>>), st |-> [self EXCEPT !.positional = Some(arg)]]
             ELSE [ret |-> Err(<<"multiple positional arguments">>), st |-> self]
        ELSE IF c # None /\ c[1] \in DOMAIN self.short_map
        THEN [ret |-> Err(<<"repeated in config", "-", c[1]>>), st |-> self]
        ELSE IF l # None /\ l[1] \in DOMAIN self.long_map
        THEN [ret |-> Err(<<"repeated in config", "--">> \o l[1]),
              st  |-> [self EXCEPT !.short_map = shorts]]
        ELSE [ret |-> Ok(<<>>),
              st  |-> [self EXCEPT !.short_map = shorts, !.long_map = longs,
                                   !.args = Append(@, arg)]]

\* The arguments given to arg_safe: flags with no short name or one of two,
\* and no long name or one of two; the one with neither is positional.
NewArgs ==
    { [name |-> <<>>, action |-> [thunk |-> "Louder"], short |-> c, long |-> l] :
        c \in {None, Some("l"), Some("s")}, l \in {<<>>, louder, softer} }

ConfigNewInit ==
    /\ builder = Config_new
    /\ calls = <<>>
    /\ arg_item = None
    /\ supplied = None
    /\ lookup = None
    /\ cmp = None
    /\ iter = None
    /\ results = None
    /\ config = hash_config
    /\ args = <<>>
    /\ first = Start
    /\ rest = <<>>
    /\ out = <<>>
    /\ ret = None
    /\ hash = new
    /\ list = <<>>
    /\ common = <<>>

\* config.arg_safe(arg)
Config_arg_safe ==
    \E arg \in NewArgs :
        LET r == arg_safe(builder, arg) IN
        /\ Len(calls) < MaxCalls
        /\ builder' = r.st
        /\ calls' = Append(calls, [arg |-> arg, ret |-> r.ret])
        /\ UNCHANGED low_vars
        /\ UNCHANGED <<lookup, cmp, iter, results, arg_item, supplied>>

BuilderNext == Config_arg_safe

SpecBuilder == ConfigNewInit /\ [][BuilderNext]_vars

\* The arguments registered so far: those arg_safe returned Ok for.
Registered ==
    {calls[i].arg : i \in {j \in 1..Len(calls) : "ok" \in DOMAIN calls[j].ret}}

\* The new argument repeats a name of a registered argument, or is a second
\* positional argument.
Repeats(arg) ==
    \E e \in Registered :
        \/ Arg_is_positional(arg) /\ Arg_is_positional(e)
        \/ arg.short # None /\ arg.short = e.short
        \/ arg.long # <<>> /\ arg.long = e.long

\* ------------------------------------------------------------------------
\* C26  The high-level configuration rejects duplicates: a call of
\* arg_safe returns Err when the short name or the long name of the new
\* argument is that of an argument registered before (or when it is a
\* second positional argument) and Ok otherwise; and no two arguments of
\* the list have the same short name or the same long name, so that each
\* short character and each long name belongs to at most one argument.
\* ------------------------------------------------------------------------
C26_RejectsDuplicates ==
    [][ LET call == calls'[Len(calls')]
            added == builder'.args
        IN  /\ IsErr(call.ret) <=> Repeats(call.arg)
            /\ \A i, j \in 1..Len(added) :
                 i # j => /\ added[i].short = None \/ added[i].short # added[j].short
                          /\ added[i].long = <<>> \/ added[i].long # added[j].long
            /\ \A c \in DOMAIN builder'.short_map :
                 Cardinality({i \in 1..Len(added) : added[i].short = Some(c)}) <= 1
            /\ \A l \in DOMAIN builder'.long_map :
                 Cardinality({i \in 1..Len(added) : added[i].long = l}) <= 1 ]_vars

\* What the code does: Err exactly when the short name is in short_map, or
\* else the long name in long_map, whoever entered it.
C26_ErrIfInMaps ==
    [][ LET call == calls'[Len(calls')] IN
        IsErr(call.ret) <=>
            \/ Arg_is_positional(call.arg) /\ builder.positional # None
            \/ call.arg.short # None /\ call.arg.short[1] \in DOMAIN builder.short_map
            \/ call.arg.long # <<>> /\ call.arg.long \in DOMAIN builder.long_map ]_vars

\* -l/--louder was registered; -s/--louder was refused for its long name;
\* then -s alone was refused too, although no registered argument has the
\* short name 's': the refused call had entered it in short_map.
C26_RefusedNameKept ==
    /\ Len(calls) = 3
    /\ calls[1].arg.short = Some("l") /\ calls[1].arg.long = louder
    /\ calls[2].arg.short = Some("s") /\ calls[2].arg.long = louder
    /\ calls[3].arg.short = Some("s") /\ calls[3].arg.long = <<>>
    /\ "ok" \in DOMAIN calls[1].ret
    /\ IsErr(calls[2].ret)
    /\ IsErr(calls[3].ret)
    /\ Len(builder.args) = 1
    /\ builder.short_map["s"] = 1

\* ------------------------------------------------------------------------
\* C36  A rejected registration changes nothing: when a call of arg_safe
\* returns Err, the argument list, the short-name map, the long-name map
\* and the positional slot are as they were before the call, also for an
\* argument whose short name is new and whose long name is registered.
\* ------------------------------------------------------------------------
C36_RejectedChangesNothing ==
    [][ IsErr(calls'[Len(calls')].ret)
        => /\ builder'.args = builder.args
           /\ builder'.short_map = builder.short_map
           /\ builder'.long_map = builder.long_map
           /\ builder'.positional = builder.positional ]_vars

\* What the code keeps on a refused call: the argument list, the long-name
\* map and the positional slot; the short-name map only grows.
C36_RejectedKeepsList ==
    [][ IsErr(calls'[Len(calls')].ret)
        => /\ builder'.args = builder.args
           /\ builder'.long_map = builder.long_map
           /\ builder'.positional = builder.positional
           /\ \A c \in DOMAIN builder.short_map :
                /\ c \in DOMAIN builder'.short_map
                /\ builder'.short_map[c] = builder.short_map[c] ]_vars

\* --louder was registered and -s/--louder refused: the short-name map,
\* empty before the refused call, holds 's'.
C36_RefusedCallEntered ==
    /\ Len(calls) = 2
    /\ calls[1].arg.short = None /\ calls[1].arg.long = louder
    /\ calls[2].arg.short = Some("s") /\ calls[2].arg.long = louder
    /\ IsErr(calls[2].ret)
    /\ DOMAIN builder.short_map = {"s"}

\* Config::get_short and Config::get_long index self.args with the entry of
\* the map; the index is in bounds if it is smaller than the length.
InBounds(self, index) == index + 1 \in 1..Len(self.args)

\* ------------------------------------------------------------------------
\* C37  The maps point into the argument list: after any calls of
\* arg_safe, successful or not, every entry of the short-name map and of
\* the long-name map holds an index smaller than the length of the argument
\* list, and the argument at that index has that short character or that
\* long name, so get_short and get_long never index out of bounds nor
\* return an argument registered under another name.
\* ------------------------------------------------------------------------
C37_MapsPointIntoList ==
    /\ \A c \in DOMAIN builder.short_map :
         /\ InBounds(builder, builder.short_map[c])
         /\ builder.args[builder.short_map[c] + 1].short = Some(c)
    /\ \A l \in DOMAIN builder.long_map :
         /\ InBounds(builder, builder.long_map[l])
         /\ builder.args[builder.long_map[l] + 1].long = l

\* What holds of the long-name map, which is entered last.
C37_LongMapPointsIntoList ==
    \A l \in DOMAIN builder.long_map :
        /\ InBounds(builder, builder.long_map[l])
        /\ builder.args[builder.long_map[l] + 1].long = l

\* --louder was registered, -s/--louder refused and -l/--softer
\* registered: the entry of 's' is the index of the argument -l/--softer.
C37_OtherNameReturned ==
    /\ Len(calls) = 3
    /\ calls[2].arg.short = Some("s") /\ IsErr(calls[2].ret)
    /\ Len(builder.args) = 2
    /\ builder.short_map["s"] = 1
    /\ builder.args[builder.short_map["s"] + 1].short = Some("l")

\* ------------------------------------------------------------------------
\* ArgItem (low/iter_iter.rs): an argument with the ranges of its flag and
\* of its parameter.
\* ------------------------------------------------------------------------

\* Range<usize>
Range(start, end) == [start |-> start, end |-> end]

\* str::index(range): the characters from start up to end, exclusive.
str_index(text, range) == SubSeq(text, range.start + 1, range.end)

\* ArgItem::is_positional
ArgItem_is_positional(self) == self.the_type = "Positional"

\* ArgItem::has_param
ArgItem_has_param(self) == self.extra_range.start >= self.extra_range.end

\* ArgItem::get_param
ArgItem_get_param(self) ==
    IF ArgItem_is_positional(self) \/ self.extra_range.start >= self.extra_range.end
    THEN None
    ELSE LET original == IF self.extra_original # None
                         THEN self.extra_original[1] ELSE self.original
         IN  Some(str_index(original, self.extra_range))

\* The items: of each type, over the argument -ab or --a=b, with or without
\* a second argument holding the parameter, and with every parameter range
\* that lies in both.
ArgItems ==
    { [the_type       |-> t,
       original       |-> o,
       extra_original |-> e,
       range          |-> Range(1, 2),
       extra_range    |-> Range(start, end)] :
        t \in {"Short", "Long", "Positional"},
        o \in {<<"-", "a", "b">>, <<"-", "-", "a", "=", "b">>},
        e \in {None, Some(<<"b", "c">>)},
        start \in 0..2, end \in 0..2 }

ArgItemInit ==
    /\ arg_item \in {[self |-> i, has_param |-> None, get_param |-> None] :
                        i \in ArgItems}
    /\ lookup = None
    /\ cmp = None
    /\ iter = None
    /\ results = None
    /\ builder = None
    /\ calls = None
    /\ supplied = None
    /\ config = hash_config
    /\ args = <<>>
    /\ first = Start
    /\ rest = <<>>
    /\ out = <<>>
    /\ ret = None
    /\ hash = new
    /\ list = <<>>
    /\ common = <<>>

\* item.has_param()
call_has_param ==
    /\ arg_item' = [arg_item EXCEPT
                      !.has_param = Some(ArgItem_has_param(arg_item.self))]
    /\ UNCHANGED low_vars
    /\ UNCHANGED <<lookup, cmp, iter, results, builder, calls, supplied>>

\* item.get_param()
call_get_param ==
    /\ arg_item' = [arg_item EXCEPT
                      !.get_param = Some(ArgItem_get_param(arg_item.self))]
    /\ UNCHANGED low_vars
    /\ UNCHANGED <<lookup, cmp, iter, results, builder, calls, supplied>>

ArgItemNext == call_has_param \/ call_get_param

SpecArgItem == ArgItemInit /\ [][ArgItemNext]_vars

\* ------------------------------------------------------------------------
\* C38  ArgItem::has_param agrees with ArgItem::get_param: for every item
\* that is not positional, has_param() is true exactly when get_param()
\* returns Some, the parameter range being non-empty, and false when the
\* range is empty.
\* ------------------------------------------------------------------------
C38_HasParamAgrees ==
    (/\ arg_item.self.the_type # "Positional"
     /\ arg_item.has_param # None
     /\ arg_item.get_param # None)
    => (arg_item.has_param[1] = TRUE <=> arg_item.get_param[1] # None)

\* What the code does: has_param is true exactly when the range is empty,
\* that is when get_param returns None.
C38_HasParamIsEmptyRange ==
    (/\ arg_item.self.the_type # "Positional"
     /\ arg_item.has_param # None
     /\ arg_item.get_param # None)
    => (arg_item.has_param[1] = TRUE <=> arg_item.get_param[1] = None)

\* The short item of -ab with the parameter range 1..2: get_param returned
\* "a" and has_param returned false.
C38_ParamButHasNone ==
    /\ arg_item.self.the_type = "Short"
    /\ arg_item.self.original = <<"-", "a", "b">>
    /\ arg_item.self.extra_original = None
    /\ arg_item.self.extra_range = Range(1, 2)
    /\ arg_item.get_param = Some(Some(<<"a">>))
    /\ arg_item.has_param = Some(FALSE)

\* ------------------------------------------------------------------------
\* C31  A hyphen inside a short cluster is an ordinary short character: when
\* the next character of the cluster being read is '-', the pull returns an
\* item for the flag Short('-') (UnknownFlag(Short('-')) with the rest of
\* the cluster still pending when '-' is not registered), never a long
\* option or a positional, and does not enter PositionalOnly.  The state
\* becomes PositionalOnly only when a pull reads the whole raw token `--`
\* in Start state.
C31_HyphenInCluster ==
    [][ /\ (Pending # <<>> /\ Head(Pending) = "-") =>
             /\ ret' # Some(None)
             /\ ret'[1][1].kind # "Positional"
             /\ ret'[1][1].flag = Short("-")
             /\ first'.tag # "PositionalOnly"
             /\ ShortPresence(config, "-") = "None" =>
                  /\ Emits(UnknownFlag(Short("-")))
                  /\ first' = ShortOpts(Tail(Pending))
                  /\ rest' = rest
        /\ (first'.tag = "PositionalOnly" /\ first.tag # "PositionalOnly") =>
             /\ ReadsInStart(first)
             /\ rest # <<>>
             /\ Head(rest) = <<"-", "-">>
      ]_vars

\* -a-b under the hash configuration has been read to its end: the hyphen
\* came out as UnknownFlag(Short('-')) and the character after it as the
\* next flag of the same cluster.
C31_Witness ==
    /\ config = hash_config
    /\ args # <<>>
    /\ args[1] = <<"-", "a", "-", "b">>
    /\ Len(out) >= 3
    /\ out[2] = UnknownFlag(Short("-"))
    /\ out[3].flag = Short("b")
    /\ first.tag # "PositionalOnly"

\* A configuration that registers '-' answers for it.
C31_WitnessRegistered ==
    /\ config = fn_config("Never")
    /\ args # <<>>
    /\ args[1] = <<"-", "a", "-">>
    /\ Len(out) >= 2
    /\ out[2].kind = "Opt" /\ out[2].flag = Short("-")
    /\ first.tag # "PositionalOnly"

\* ------------------------------------------------------------------------
\* Pulls under a configuration supplied for one step:
\* SliceIter::next_with_config(c) beside SliceIter::next().
\* ------------------------------------------------------------------------

\* A step that keeps the supplied configuration as the stored one.
SliceIter_next_with_config_stores ==
    \E c \in SwapConfigs :
        LET r == next_with_config(c, State(first, rest)) IN
        /\ first' = r.st.first
        /\ rest' = r.st.rest
        /\ ret' = Some(r.ret)
        /\ out' = IF r.ret = None THEN out ELSE Append(out, r.ret[1])
        /\ supplied' = Some(c)
        /\ config' = c
        /\ UNCHANGED args
        /\ UNCHANGED config_vars
        /\ UNCHANGED <<lookup, cmp, iter, results, builder, calls, arg_item>>

\* iter.next_with_config(c): self.state.next_with_config(config); self.config
\* is not touched.
SliceIter_next_with_config ==
    \E c \in SwapConfigs :
        LET r == next_with_config(c, State(first, rest)) IN
        /\ first' = r.st.first
        /\ rest' = r.st.rest
        /\ ret' = Some(r.ret)
        /\ out' = IF r.ret = None THEN out ELSE Append(out, r.ret[1])
        /\ supplied' = Some(c)
        /\ UNCHANGED <<config, args>>
        /\ UNCHANGED config_vars
        /\ UNCHANGED <<lookup, cmp, iter, results, builder, calls, arg_item>>

\* The inputs of the stepped iterators are of size at most MaxStepInput.
MaxStepInput == 2

\* SliceIter::new(config, args)
StepInit ==
    /\ config \in SwapConfigs
    /\ Inputs(<<>>, MaxStepInput)
    /\ first = Start
    /\ rest = args
    /\ out = <<>>
    /\ ret = None
    /\ hash = new
    /\ list = <<>>
    /\ common = <<>>
    /\ AuxInit

StepNext == next \/ SliceIter_next_with_config

SpecStep == StepInit /\ [][StepNext]_vars

\* The configuration a pull has classified with: the supplied one, or the
\* stored one when none was supplied.
UsedConfig(given, stored) == IF given = None THEN stored ELSE given[1]

\* ------------------------------------------------------------------------
\* C32  next_with_config(c) classifies one item under c for that step only:
\* every pull moves the tokenizer state and the input position, and returns
\* and collects the item, exactly as a pull under the configuration it was
\* made with (c for next_with_config(c), the stored one for next()); no pull
\* changes the stored configuration, so next() after next_with_config(c)
\* classifies under the stored configuration again.
C32_StepOnlyConfig ==
    [][ LET r == next_with_config(UsedConfig(supplied', config),
                                  State(first, rest))
        IN  /\ first' = r.st.first
            /\ rest' = r.st.rest
            /\ ret' = Some(r.ret)
            /\ out' = IF r.ret = None THEN out ELSE Append(out, r.ret[1])
            /\ config' = config
      ]_vars

\* -aa with FnConfig Always stored: the first a was pulled under the supplied
\* hash configuration (no parameter, the registered token), the second by
\* next() under the stored one again (a parameter is required and missing).
C32_Witness ==
    /\ config = fn_config("Always")
    /\ args = << <<"-", "a", "a">> >>
    /\ out = <<Opt(Short("a"), None, "short_a"), MissingParam(Short("a"))>>
    /\ supplied = None

\* ------------------------------------------------------------------------
\* Where the texts of an item come from.
\* ------------------------------------------------------------------------

\* x is a run of consecutive characters of t.
IsSubstring(x, t) ==
    \/ x = <<>>
    \/ \E i \in 1..Len(t) : \E j \in i..Len(t) : SubSeq(t, i, j) = x

\* The raw tokens the pull reads.
Taken == SubSeq(rest, 1, Len(rest) - Len(rest'))

\* The raw token the pull classifies: the one of the cluster being read, or
\* the first token read, or the one after `--` read in Start state.
SourceToken ==
    IF first.tag = "ShortOpts" /\ first.s # <<>> THEN args[consumed]
    ELSE IF Taken = <<>> THEN <<>>
    ELSE IF ReadsInStart(first) /\ Taken[1] = <<"-", "-">> /\ Len(Taken) > 1
    THEN Taken[2]
    ELSE Taken[1]

\* The texts other than the flag that an item carries.
TextsOf(item) ==
    IF item.kind = "Positional" THEN {item.text}
    ELSE IF item.kind = "Opt" THEN {item.param[i] : i \in 1..Len(item.param)}
    ELSE IF item.err = "UnexpectedParam" THEN {item.param}
    ELSE {}

\* The i-th raw token read by the pull is the first `--` read in Start
\* state, or comes out verbatim as a Positional, or is the token the
\* returned Opt or Error names its flag from, or is the whole parameter of
\* the returned Opt.
Accounted(i) ==
    LET t == Taken[i] IN
    \/ i = 1 /\ t = <<"-", "-">> /\ ReadsInStart(first)
    \/ ret' = Some(Some(Positional(t)))
    \/ /\ ret' # Some(None)
       /\ ret'[1][1].kind \in {"Opt", "Error"}
       /\ t = SourceToken
       /\ Len(t) >= 2 /\ t[1] = "-"
       /\ IsSubstring(ret'[1][1].flag.name, Tail(t))
    \/ /\ ret' # Some(None)
       /\ ret'[1][1].kind = "Opt"
       /\ ret'[1][1].param = Some(t)

\* ------------------------------------------------------------------------
\* C35  No raw token is silently dropped: iteration returns None only when
\* the whole input has been read and no cluster is pending; every raw token
\* a pull reads is the first `--` read in Start state, or is returned
\* verbatim as a Positional, or is the token the returned Opt or Error names
\* its flag from, or is the whole parameter of the returned Opt; every pull
\* inside a short cluster returns an item for the next character of the
\* cluster and leaves the characters after it pending or carries all of them
\* as the parameter; and every text an item carries is a substring of the
\* token classified or of a token read by the pull.
C35_NothingDropped ==
    /\ [](ret = Some(None) => (rest = <<>> /\ Pending = <<>>))
    /\ [][ /\ \A i \in 1..Len(Taken) : Accounted(i)
           /\ Pending # <<>> =>
                /\ ret' # Some(None)
                /\ ret'[1][1].kind \in {"Opt", "Error"}
                /\ ret'[1][1].flag = Short(Head(Pending))
                /\ \/ Tail(Pending) = <<>>
                   \/ first' = ShortOpts(Tail(Pending))
                   \/ /\ ret'[1][1].kind = "Opt"
                      /\ ret'[1][1].param = Some(Tail(Pending))
           /\ ret' # Some(None) =>
                /\ ret'[1][1].kind # "Positional" =>
                     IsSubstring(ret'[1][1].flag.name, SourceToken)
                /\ \A x \in TextsOf(ret'[1][1]) :
                     \/ IsSubstring(x, SourceToken)
                     \/ \E i \in 1..Len(Taken) : x = Taken[i]
         ]_vars

\* Three raw tokens read to the end: the first gave an Opt whose parameter
\* is the whole second token, the third came out verbatim.
C35_Witness ==
    /\ ret = Some(None)
    /\ Len(args) = 3
    /\ Len(out) = 2
    /\ out[1].kind = "Opt"
    /\ out[1].param = Some(args[2])
    /\ out[2] = Positional(args[3])

\* The marker read in Start state is the one token that gives no item.
C35_WitnessMarker ==
    /\ ret = Some(None)
    /\ Len(args) = 3
    /\ args[1] = <<"-", "-">>
    /\ out = <<Positional(args[2]), Positional(args[3])>>

\* ------------------------------------------------------------------------
\* The high-level iterator (iter.rs) over a Config (config.rs).
\* ------------------------------------------------------------------------

\* Error::from_string
from_string(e) == [option |-> <<>>, message |-> e]

\* Error::with_option
with_option(self, option) == [self EXCEPT !.option = option]

\* Arg::takes_parameter: the parameter name is not empty (Arg::flag gives
\* the empty name).
Arg_takes_parameter(self) == self.name # <<>>

\* Arg::parse_argument: the action applied to the text.
Arg_parse_argument(self, actual) ==
    LET r == action(self, actual) IN
    IF "ok" \in DOMAIN r THEN r ELSE Err(from_string(r.err))

\* Arg::new_error
Arg_new_error(self, is_long, message) == from_string(message)

\* Config::get_positional
Config_get_positional(self) == self.positional

\* Config::get_short
Config_get_short(self, c) ==
    IF get(self.short_map, c) = None THEN None
    ELSE Some(self.args[get(self.short_map, c)[1] + 1])

\* Config::get_long
Config_get_long(self, text) ==
    IF get(self.long_map, text) = None THEN None
    ELSE Some(self.args[get(self.long_map, text)[1] + 1])

\* Config::args: arg_safe for each argument in order.
RECURSIVE Config_args(_, _)
Config_args(self, list_of_args) ==
    IF list_of_args = <<>> THEN self
    ELSE Config_args(arg_safe(self, Head(list_of_args)).st, Tail(list_of_args))

\* ArgState
EndOfOptions == [tag |-> "EndOfOptions"]

ShortOption(c, param) == [tag |-> "ShortOption", c |-> c, param |-> param]

LongOption(text, param) == [tag |-> "LongOption", s |-> text, param |-> param]

ArgState_Positional(text) == [tag |-> "Positional", s |-> text]

\* analyze_option
analyze_option(option) ==
    LET sf == split_first_str(option) IN
    IF sf = None THEN ArgState_Positional(<<"-">>)
    ELSE IF sf[1][1] = "-" /\ sf[1][2] = <<>> THEN EndOfOptions
    ELSE IF sf[1][1] = "-"
    THEN LET ix == find(sf[1][2], "=") IN
         IF ix # None
         THEN LongOption(slice_to(sf[1][2], ix[1]),
                         Some(slice_from(sf[1][2], ix[1] + 1)))
         ELSE LongOption(sf[1][2], None)
    ELSE ShortOption(sf[1][1], sf[1][2])

\* analyze_argument
analyze_argument(param) ==
    LET sf == split_first_str(param) IN
    IF sf # None /\ sf[1][1] = "-" THEN analyze_option(sf[1][2])
    ELSE ArgState_Positional(param)

\* Iter::parse_positional
Iter_parse_positional(self, actual) ==
    IF Config_get_positional(self.config) = None
    THEN Err(from_string(<<"Positional arguments not accepted">>))
    ELSE Arg_parse_argument(Config_get_positional(self.config)[1], actual)

\* map_err(|e| e.with_option(arg)) on a result.
map_err_with_option(result, arg) ==
    IF "ok" \in DOMAIN result THEN result
    ELSE Err(with_option(result.err, arg))

\* Iterator::next for the high-level Iter of iter.rs: ret is None or
\* Some(result), st the iterator afterwards.
HighIter_next(self) ==
    LET nx    == args_next(self.args)
        item  == IF self.push_back # None THEN self.push_back ELSE nx.ret
        s0    == [self EXCEPT !.push_back = None,
                              !.args = IF self.push_back # None THEN @
                                       ELSE nx.rest]
        arg   == item[1]
        state == analyze_argument(arg)
        nx2   == args_next(s0.args)
        by_short == Config_get_short(self.config, state.c)
        by_long == Config_get_long(self.config, state.s)
    IN  IF item = None THEN [ret |-> None, st |-> s0]
        ELSE IF self.positional
        THEN [ret |-> Some(Iter_parse_positional(self, arg)), st |-> s0]
        ELSE CASE state.tag = "EndOfOptions" ->
                    [ret |-> IF nx2.ret = None THEN None
                             ELSE Some(map_err_with_option(
                                      Iter_parse_positional(self, nx2.ret[1]),
                                      arg)),
                     st  |-> [s0 EXCEPT !.positional = TRUE, !.args = nx2.rest]]
               [] state.tag = "ShortOption" ->
                    IF by_short = None
                    THEN [ret |-> Some(Err(with_option(
                                     with_option(from_string(<<"unrecognized">>),
                                                 <<"-", state.c>>), arg))),
                          st  |-> s0]
                    ELSE IF Arg_takes_parameter(by_short[1])
                    THEN IF state.param # <<>>
                         THEN [ret |-> Some(map_err_with_option(
                                   Arg_parse_argument(by_short[1], state.param), arg)),
                               st  |-> s0]
                         ELSE IF nx2.ret # None
                         THEN [ret |-> Some(map_err_with_option(
                                   Arg_parse_argument(by_short[1], nx2.ret[1]), arg)),
                               st  |-> [s0 EXCEPT !.args = nx2.rest]]
                         ELSE [ret |-> Some(Err(with_option(
                                   Arg_new_error(by_short[1], FALSE,
                                       <<"expected option parameter">>), arg))),
                               st  |-> [s0 EXCEPT !.args = nx2.rest]]
                    ELSE [ret |-> Some(map_err_with_option(
                                   Arg_parse_argument(by_short[1], <<>>), arg)),
                          st  |-> IF state.param # <<>>
                                  THEN [s0 EXCEPT !.push_back =
                                            Some(<<"-">> \o state.param)]
                                  ELSE s0]
               [] state.tag = "LongOption" ->
                    IF by_long = None
                    THEN [ret |-> Some(Err(with_option(
                                     with_option(from_string(<<"unrecognized">>),
                                                 <<"-", "-">> \o state.s), arg))),
                          st  |-> s0]
                    ELSE IF Arg_takes_parameter(by_long[1])
                    THEN IF state.param # None
                         THEN [ret |-> Some(map_err_with_option(
                                   Arg_parse_argument(by_long[1], state.param[1]),
                                   arg)),
                               st  |-> s0]
                         ELSE IF nx2.ret # None
                         THEN [ret |-> Some(map_err_with_option(
                                   Arg_parse_argument(by_long[1], nx2.ret[1]), arg)),
                               st  |-> [s0 EXCEPT !.args = nx2.rest]]
                         ELSE [ret |-> Some(Err(with_option(
                                   Arg_new_error(by_long[1], TRUE,
                                       <<"expected option parameter">>), arg))),
                               st  |-> [s0 EXCEPT !.args = nx2.rest]]
                    ELSE IF state.param = None
                    THEN [ret |-> Some(map_err_with_option(
                                   Arg_parse_argument(by_long[1], <<>>), arg)),
                          st  |-> s0]
                    ELSE [ret |-> Some(Err(with_option(
                                   Arg_new_error(by_long[1], TRUE,
                                       <<"unexpected option parameter">>), arg))),
                          st  |-> s0]
               [] state.tag = "Positional" ->
                    [ret |-> Some(map_err_with_option(
                                 Iter_parse_positional(self, state.s), arg)),
                     st  |-> s0]

\* The Config of the flags and the parameter of tests::get_builder, with a
\* positional argument parsed as a number.
high_config ==
    Config_args(Config_new,
                Append(get_builder, Arg_param(<<"N">>, [variant |-> "Freq"])))

\* Config::iter(args): Iter::new(self, args), for the argument lists of size
\* at most MaxArgs.
HighInit ==
    /\ ArgLists(<<>>, MaxArgs)
    /\ iter = [config |-> high_config, args |-> args, push_back |-> None,
               positional |-> FALSE]
    /\ results = <<>>
    /\ ret = None
    /\ config = hash_config
    /\ first = Start
    /\ rest = <<>>
    /\ out = <<>>
    /\ hash = new
    /\ list = <<>>
    /\ common = <<>>
    /\ lookup = None
    /\ cmp = None
    /\ builder = None
    /\ calls = None
    /\ arg_item = None
    /\ supplied = None

\* One pull of collect() on the high-level Iter; collect() stops at the
\* first None.
HighIter_pull ==
    LET r == HighIter_next(iter) IN
    /\ ret # Some(None)
    /\ iter' = r.st
    /\ ret' = Some(r.ret)
    /\ results' = IF r.ret = None THEN results ELSE Append(results, r.ret[1])
    /\ UNCHANGED <<config, first, rest, args, out>>
    /\ UNCHANGED config_vars
    /\ UNCHANGED <<lookup, cmp, builder, calls, arg_item, supplied>>

HighNext == HighIter_pull

SpecHigh == HighInit /\ [][HighNext]_vars

\* ------------------------------------------------------------------------
\* C33  The high-level Iter enters positional-only mode exactly when a raw
\* input token equal to `--` is read while options are parsed: a pull sets
\* the mode if and only if the text it analyzes is `--`, and that text is
\* then a token of the input (nothing was pushed back); and no text pushed
\* back from a short cluster is analyzed as a long option.
C33_MarkerOnlyFromInput ==
    [][ /\ (iter'.positional /\ ~iter.positional) <=>
             /\ ~iter.positional
             /\ iter.push_back = None
             /\ iter.args # <<>>
             /\ Head(iter.args) = <<"-", "-">>
        /\ (~iter.positional /\ iter.push_back # None) =>
             analyze_argument(iter.push_back[1]).tag = "ShortOption"
      ]_vars

\* What the code does: the mode is set exactly when the text analyzed, be it
\* a token of the input or the text pushed back, is `--`.
C33_MarkerFromAnalyzedText ==
    [][ (iter'.positional /\ ~iter.positional) <=>
            /\ ~iter.positional
            /\ \/ iter.push_back = Some(<<"-", "-">>)
               \/ /\ iter.push_back = None
                  /\ iter.args # <<>>
                  /\ Head(iter.args) = <<"-", "-">>
      ]_vars

\* -l- followed by -s: the hyphen left of the cluster was pushed back as
\* `--` and switched the mode, so -s was parsed as a positional.
C33_ClusterSwitchedMode ==
    /\ args = << <<"-", "l", "-">>, <<"-", "s">> >>
    /\ iter.positional
    /\ Len(results) = 2
    /\ results[1] = Ok([opt |-> "Louder"])
    /\ "err" \in DOMAIN results[2]

\* -l-s: the text left of the cluster was pushed back as `--s` and came
\* out as the unrecognized long option --s.
C33_ClusterReadAsLong ==
    /\ args = << <<"-", "l", "-", "s">> >>
    /\ Len(results) = 2
    /\ results[2] = Err([option |-> <<"-", "-", "s">>,
                         message |-> <<"unrecognized">>])

\* ------------------------------------------------------------------------
\* The iterator-sourced engine (low/iter_iter/mod.rs, item.rs): IterIter
\* owns each raw token and addresses its texts by ranges.
\* ------------------------------------------------------------------------

\* The inputs given to both engines are of size at most MaxIterInput.
MaxIterInput == 2

\* OwnedSlice::new
OwnedSlice_new(owned) == [owned |-> owned, range |-> Range(0, Len(owned))]

\* OwnedSlice::next: the first character of the range, which then starts
\* after it.
OwnedSlice_next(self) ==
    IF self.range.start < self.range.end
    THEN [ret |-> Some(self.owned[self.range.start + 1]),
          st  |-> [self EXCEPT !.range = Range(self.range.start + 1,
                                               self.range.end)]]
    ELSE [ret |-> None, st |-> self]

\* impl Deref for OwnedSlice
deref(self) == str_index(self.owned, self.range)

\* Opt::new_short_flag, seen through Opt::flag and Opt::param.
new_short_flag(c) == [flag |-> Short(c), param |-> None]

\* Opt::new_long_flag
new_long_flag(original, range) ==
    [flag |-> Long(str_index(original, range)), param |-> None]

\* Opt::new_short_param
new_short_param(c, param_original, param_range) ==
    [flag |-> Short(c), param |-> Some(str_index(param_original, param_range))]

\* Opt::new_long_param: the flag is read from extra_original, or from
\* param_original when there is none.
new_long_param(flag_original, flag_range, param_original, param_range) ==
    [flag  |-> Long(str_index(IF flag_original = None THEN param_original
                              ELSE flag_original[1], flag_range)),
     param |-> Some(str_index(param_original, param_range))]

\* Item::Opt, Item::Positional and Item::error of the iterator-sourced
\* engine.
Item_Opt(option, token) == [kind |-> "Opt", opt |-> option, token |-> token]

Item_Positional(text) == [kind |-> "Positional", text |-> text]

Item_error(kind, option) == [kind |-> "Error", err |-> kind, opt |-> option]

\* State::next_arg
IterIter_next_arg(st) ==
    IF st.iter = <<>> THEN [ret |-> None, st |-> st]
    ELSE [ret |-> Some(OwnedSlice_new(Head(st.iter))),
          st  |-> [st EXCEPT !.iter = Tail(@)]]

\* State::parse_long
IterIter_parse_long(cfg, st, after_hyphens) ==
    LET found  == find(deref(after_hyphens), "=")
        range  == after_hyphens.range
        na     == IterIter_next_arg(st)
    IN  IF found # None
        THEN LET policy_opt  == get_long_policy(
                                    cfg, slice_to(deref(after_hyphens), found[1]))
                 flag_range  == Range(range.start, range.start + found[1])
                 param_range == Range(range.start + found[1] + 1, range.end)
                 option      == new_long_param(None, flag_range,
                                               after_hyphens.owned, param_range)
             IN  IF policy_opt = None
                 THEN [ret |-> Item_error("UnknownFlag", option), st |-> st]
                 ELSE IF policy_opt[1].presence = "Never"
                 THEN [ret |-> Item_error("UnexpectedParam", option), st |-> st]
                 ELSE [ret |-> Item_Opt(option, policy_opt[1].token), st |-> st]
        ELSE LET policy_opt == get_long_policy(cfg, deref(after_hyphens))
                 flag       == after_hyphens
             IN  IF policy_opt = None
                 THEN [ret |-> Item_error("UnknownFlag",
                                  new_long_flag(flag.owned, flag.range)),
                       st  |-> st]
                 ELSE IF policy_opt[1].presence \in {"Never", "IfAttached"}
                 THEN [ret |-> Item_Opt(new_long_flag(flag.owned, flag.range),
                                        policy_opt[1].token),
                       st  |-> st]
                 ELSE IF na.ret = None
                 THEN [ret |-> Item_error("MissingParam",
                                  new_long_flag(flag.owned, flag.range)),
                       st  |-> na.st]
                 ELSE [ret |-> Item_Opt(
                                  new_long_param(Some(flag.owned), flag.range,
                                                 na.ret[1].owned, na.ret[1].range),
                                  policy_opt[1].token),
                       st  |-> na.st]

\* State::parse_short; self.inner is Start when it is called.
IterIter_parse_short(cfg, st, c, short_rest) ==
    LET flag   == new_short_flag(c)
        policy == get_short_policy(cfg, c)
        na     == IterIter_next_arg(st)
        param  == new_short_param(c, short_rest.owned, short_rest.range)
    IN  IF policy = None
        THEN [ret |-> Item_error("UnknownFlag", flag),
              st  |-> [st EXCEPT !.inner = ShortOpts(short_rest)]]
        ELSE CASE policy[1].presence = "Always" ->
                    IF deref(short_rest) = <<>>
                    THEN IF na.ret = None
                         THEN [ret |-> Item_error("MissingParam", flag),
                               st  |-> na.st]
                         ELSE [ret |-> Item_Opt(
                                   new_short_param(c, na.ret[1].owned,
                                                   na.ret[1].range),
                                   policy[1].token),
                               st  |-> na.st]
                    ELSE [ret |-> Item_Opt(param, policy[1].token), st |-> st]
               [] policy[1].presence = "IfAttached" ->
                    IF deref(short_rest) = <<>>
                    THEN [ret |-> Item_Opt(flag, policy[1].token), st |-> st]
                    ELSE [ret |-> Item_Opt(param, policy[1].token), st |-> st]
               [] policy[1].presence = "Never" ->
                    [ret |-> Item_Opt(flag, policy[1].token),
                     st  |-> [st EXCEPT !.inner = ShortOpts(short_rest)]]

\* State::next_with_config of the iterator-sourced engine: one pull.  Each
\* turn of the loop replaces self.inner by Start and matches on what it was.
RECURSIVE IterIter_next_with_config(_, _)
IterIter_next_with_config(cfg, st) ==
    LET s0 == [st EXCEPT !.inner = Start]
        na == IterIter_next_arg(s0)
        n1 == OwnedSlice_next(na.ret[1])
        n2 == OwnedSlice_next(n1.st)
        ns == OwnedSlice_next(st.inner.s)
        np == IterIter_next_arg([s0 EXCEPT !.inner = PositionalOnly])
    IN  CASE st.inner.tag = "Start" ->
               IF na.ret = None THEN [ret |-> None, st |-> na.st]
               ELSE IF n1.ret = Some("-")
               THEN IF n2.ret = None
                    THEN [ret |-> Some(Item_Positional(n2.st.owned)),
                          st  |-> na.st]
                    ELSE IF n2.ret = Some("-")
                    THEN IF deref(n2.st) = <<>>
                         THEN IterIter_next_with_config(
                                  cfg, [na.st EXCEPT !.inner = PositionalOnly])
                         ELSE LET r == IterIter_parse_long(cfg, na.st, n2.st)
                              IN  [ret |-> Some(r.ret), st |-> r.st]
                    ELSE IterIter_next_with_config(
                             cfg, [na.st EXCEPT !.inner = ShortOpts(n2.st)])
               ELSE [ret |-> Some(Item_Positional(n1.st.owned)), st |-> na.st]
          [] st.inner.tag = "ShortOpts" ->
               IF ns.ret # None
               THEN LET r == IterIter_parse_short(cfg, s0, ns.ret[1], ns.st)
                    IN  [ret |-> Some(r.ret), st |-> r.st]
               ELSE IterIter_next_with_config(cfg, s0)
          [] st.inner.tag = "PositionalOnly" ->
               [ret |-> IF np.ret = None THEN None
                        ELSE Some(Item_Positional(np.ret[1].owned)),
                st  |-> np.st]

\* IterIter::new(config, source) and SliceIter::new(config, args) on the
\* same configuration and the same tokens.
IterIterInit ==
    /\ config \in Configs
    /\ Inputs(<<>>, MaxIterInput)
    /\ first = Start
    /\ rest = args
    /\ out = <<>>
    /\ ret = None
    /\ iter = [config |-> config, state |-> [inner |-> Start, iter |-> args]]
    /\ results = <<>>
    /\ hash = new
    /\ list = <<>>
    /\ common = <<>>
    /\ lookup = None
    /\ cmp = None
    /\ builder = None
    /\ calls = None
    /\ arg_item = None
    /\ supplied = None

\* Iterator::next for IterIter: one pull under the stored configuration;
\* an item is appended to the items collected from it.
IterIter_next ==
    LET r == IterIter_next_with_config(iter.config, iter.state) IN
    /\ iter' = [iter EXCEPT !.state = r.st]
    /\ results' = IF r.ret = None THEN results ELSE Append(results, r.ret[1])
    /\ UNCHANGED <<config, first, rest, args, out, ret>>
    /\ UNCHANGED config_vars
    /\ UNCHANGED <<lookup, cmp, builder, calls, arg_item, supplied>>

IterIterNext == next \/ IterIter_next

SpecIterIter == IterIterInit /\ [][IterIterNext]_vars

\* The item of the slice engine and the item of the iterator-sourced engine
\* are of the same kind and carry the same flag, the same parameter text and
\* the same token.
SameItem(slice_item, iter_item) ==
    /\ slice_item.kind = iter_item.kind
    /\ slice_item.kind = "Positional" => slice_item.text = iter_item.text
    /\ slice_item.kind = "Opt" =>
         /\ slice_item.flag = iter_item.opt.flag
         /\ slice_item.param = iter_item.opt.param
         /\ slice_item.token = iter_item.token
    /\ slice_item.kind = "Error" =>
         /\ slice_item.err = iter_item.err
         /\ slice_item.flag = iter_item.opt.flag
         /\ slice_item.err = "UnexpectedParam" =>
              Some(slice_item.param) = iter_item.opt.param

\* Both engines have returned None: the slice engine on its last pull, the
\* iterator-sourced one would on its next.
BothDone ==
    /\ ret = Some(None)
    /\ IterIter_next_with_config(iter.config, iter.state).ret = None

\* A raw token of the input is a short cluster.
HasCluster == \E i \in 1..Len(args) : IsCluster(args[i])

\* ------------------------------------------------------------------------
\* C34  IterIter classifies like SliceIter: on the same tokens and the same
\* configuration the items collected from the two engines agree one by one
\* in kind, flag, parameter text and token, and when both have returned None
\* they have yielded the same number of items.
C34_SameItems ==
    /\ \A i \in 1..Len(out) : i <= Len(results) => SameItem(out[i], results[i])
    /\ BothDone => Len(results) = Len(out)

\* What the code does: the two engines agree on every input that holds no
\* token of the shape of a short cluster.
C34_SameWithoutClusters ==
    ~HasCluster =>
        /\ \A i \in 1..Len(out) :
              i <= Len(results) => SameItem(out[i], results[i])
        /\ BothDone => Len(results) = Len(out)

\* -a under a configuration that knows a: both engines have returned None,
\* the slice engine after the item for a, the iterator-sourced one without
\* any item.
C34_FirstFlagLost ==
    /\ args = << <<"-", "a">> >>
    /\ config = hash_config
    /\ BothDone
    /\ out = <<Opt(Short("a"), None, "short_a")>>
    /\ results = <<>>

====
